---- MODULE Spec2Model ----
(***************************************************************************)
(* A model of the telemetry API server (src/api_server.py) and of the      *)
(* racing agent singleton (src/racing_agent.py).                           *)
(*                                                                         *)
(* Each endpoint is one action that models the whole request handler.      *)
(* The data files are inputs: Init draws them from bounded sets.           *)
(* Every endpoint family has its own specification (SpecLaps, ...); the    *)
(* variables of the other families stay at their idle values there.        *)
(***************************************************************************)
EXTENDS Integers, Sequences, FiniteSets, TLC

VARIABLES
    \* ---- /api/laps ----
    best_laps_data,     \* official best-lap entry of the requested car: None or Some(record)
    lap_data,           \* which lap files were loaded: subset of {"start", "end"}
    vehicle_starts,     \* lap-start marker rows of the requested vehicle
    vehicle_ends,       \* lap-end marker rows of the requested vehicle
    fallback_body,      \* ghost: the result dict built by get_fallback_lap_data (int keys)
    lap_response,       \* the HTTP response of GET /api/laps/{race}/{vehicle}
    \* ---- /api/race/{race}/positions ----
    field,              \* per car number: what the data files hold about it
    expected_lap_arg,   \* the raw expected_lap query parameter: None or Some(text)
    target_offset,      \* target timestamp minus the hardcoded race start, in seconds
    current_race_lap,   \* ghost: the handler's local current_race_lap, None when unset
    pos_response,       \* the HTTP response of GET /api/race/{race}/positions
    \* ---- /api/telemetry/{race}/{vehicle}/chunk and /position ----
    vehicle_data,       \* telemetry of the requested vehicle: None when the vehicle is
                        \* unknown, else Some(timestamp -> channel group)
    marker_times,       \* augmentation for the vehicle: None when it gives no dataset,
                        \* else Some(timestamps of its synthetic marker rows)
    tel_request,        \* ghost: the last chunk or position request
    tel_response,       \* the HTTP response to it
    \* ---- /api/ai/analyze, /api/ai/test-connection, /api/ai/reset-agent ----
    racing_agent_instance,  \* the global of module racing_agent: None or Some(agent)
    api_server_global,      \* the global racing_agent_instance of module api_server:
                            \* "undefined" until reset_racing_agent assigns it
    agents_created,         \* how many agents create_racing_agent has built
    memory,                 \* per agent: the turns its conversation holds
    pre_reset,              \* ghost: the singleton before the last reset request
    ai_request,             \* ghost: the last AI request
    ai_response,             \* the HTTP response to it
    \* ---- load_telemetry_data and the endpoints that start with it ----
    telemetry_files,    \* the races whose telemetry file exists on disk
    telemetry_cache,    \* the races load_telemetry_data has loaded
    load_request,       \* ghost: the last request, with what was on disk then
    load_response,       \* the HTTP response to it
    \* ---- the lap-time codec ----
    codec_ms,           \* the milliseconds given to format_lap_time_from_ms
    codec_text,         \* the text it printed: None until formatted
    codec_parsed,        \* what parse_lap_time made of that text: None until parsed
    \* ---- the augmentation engine and /api/telemetry/{race}/{vehicle}/augmented ----
    aug_stream,         \* the vehicle's telemetry: its timestamp groups in time order
    aug_official,       \* the lap numbers that have an official completion record
    aug_result,         \* what augment_vehicle_data returned: None until it ran
    aug_response,        \* the HTTP response of the /augmented endpoint
    \* ---- detect_stints ----
    stint_rows,         \* one car's lap rows [LAP_NUMBER, LAP_TIME] in file order
    stint_track,        \* the track argument: None or Some(name)
    stint_info,          \* per lap in lap-number order [stint_number, tire_age]: None until run
    degradation_rates,   \* per lap in lap-number order the degradation_rate: None until run
    \* ---- RaceStrategyModel ----
    decision_history,   \* self.decision_history
    history_before,     \* ghost: decision_history before the last make_strategy_decision
    strategy_calls,     \* ghost: how many make_strategy_decision calls were made
    strategy_call,      \* ghost: the arguments of the last make_strategy_decision call
    strategy_returned,  \* what that call returned: None before the first call
    decision_summary,    \* what the last get_decision_summary returned: None before it
    \* ---- model persistence ----
    models_dir_exists,  \* whether the models directory exists
    models_dir,         \* the files of the models directory: file name -> content
    save_log,           \* ghost: the save calls made so far, in order
    persist_call,       \* ghost: the last load or list call: None before it
    persist_result,     \* what that call returned or raised
    models_dir_before,  \* ghost: the directory's files before that call
    saves_before,        \* ghost: the number of saves made before that call
    \* ---- data_processing/loaders.py ----
    loader_call,        \* the last loader call and the files it met: None before it
    loader_result,       \* what that call returned or raised
    \* ---- concurrent cache population (api_server.py) ----
    dict_objects,       \* the per-race dicts created so far: object id -> keys stored in it
    race_cache,         \* telemetry_cache / lap_cache / best_laps_cache at one race id: object id, 0 = no entry
    lru_store,          \* the lru_cache wrapper's stored return value: object id, 0 = none
    thread_pc,          \* where each request thread is in its loader call
    thread_kind,        \* which loader the thread calls
    thread_next,        \* the next key the thread's population loop stores
    thread_observed,     \* what the thread's call returned, as the caller sees it at return
    \* ---- /api/ai/analyze prompt building and aggregate_telemetry_context ----
    analyze_input,      \* the valid request body of the last /api/ai/analyze call: None before it
    enhanced_question,  \* what that call appended to the question for the agent
    context_input,      \* the arguments of the last aggregate_telemetry_context call
    telemetry_context,   \* the context dict that call returned
    \* ---- RacingDataTools.get_track_position_analysis ----
    track_call,         \* the lap_distance argument and the telemetry the tool would fall back on
    track_report,        \* the position lines of the tool's answer: None before the call
    \* ---- load_best_laps_data and its cache ----
    official_file,      \* the best-laps file of the race: None (missing) or Some(rows)
    best_laps_cache,    \* best_laps_cache at the race id: None (no entry) or Some(table)
    best_laps_lru,      \* the lru_cache wrapper's stored return value: None or Some(table)
    best_laps_loads,    \* how many calls were made
    best_laps_outcome,   \* what the last call returned or raised: None before it
    \* ---- GET .../chunk with and without augmented=true ----
    chunk_rows,         \* the vehicle's telemetry rows in timestamp order: None when the vehicle is absent
    chunk_crossings,    \* the aligned crossings of the augmenter: None when augment_vehicle_data raises
    chunk_range,        \* the start_time and end_time of the requests
    chunk_response      \* augmented flag of the request -> the response: None before the request

lapVars == <<best_laps_data, lap_data, vehicle_starts, vehicle_ends,
             fallback_body, lap_response>>

posVars == <<field, expected_lap_arg, target_offset, current_race_lap, pos_response>>

telVars == <<vehicle_data, marker_times, tel_request, tel_response>>

aiVars == <<racing_agent_instance, api_server_global, agents_created, memory,
            pre_reset, ai_request, ai_response>>

loadVars == <<telemetry_files, telemetry_cache, load_request, load_response>>

codecVars == <<codec_ms, codec_text, codec_parsed>>

augVars == <<aug_stream, aug_official, aug_result, aug_response>>

stintVars == <<stint_rows, stint_track, stint_info, degradation_rates>>

strategyVars == <<decision_history, history_before, strategy_calls, strategy_call,
                  strategy_returned, decision_summary>>

persistVars == <<models_dir_exists, models_dir, save_log, persist_call, persist_result,
                 models_dir_before, saves_before>>

loadersVars == <<loader_call, loader_result>>

cacheVars == <<dict_objects, race_cache, lru_store, thread_pc, thread_kind, thread_next,
               thread_observed>>

enhanceVars == <<analyze_input, enhanced_question, context_input, telemetry_context>>

trackVars == <<track_call, track_report>>

bestLapsVars == <<official_file, best_laps_cache, best_laps_lru, best_laps_loads,
                  best_laps_outcome>>

chunkVars == <<chunk_rows, chunk_crossings, chunk_range, chunk_response>>

vars == <<lapVars, posVars, telVars, aiVars, loadVars, codecVars, augVars,
          stintVars, strategyVars, persistVars, loadersVars, cacheVars,
          enhanceVars, trackVars, bestLapsVars, chunkVars>>

(* The variables outside one endpoint family.                              *)
notLapVars == <<posVars, telVars, aiVars, loadVars, codecVars, augVars,
                stintVars, strategyVars, persistVars, loadersVars, cacheVars,
                enhanceVars, trackVars, bestLapsVars, chunkVars>>
notPosVars == <<lapVars, telVars, aiVars, loadVars, codecVars, augVars,
                stintVars, strategyVars, persistVars, loadersVars, cacheVars,
                enhanceVars, trackVars, bestLapsVars, chunkVars>>
notTelVars == <<lapVars, posVars, aiVars, loadVars, codecVars, augVars,
                stintVars, strategyVars, persistVars, loadersVars, cacheVars,
                enhanceVars, trackVars, bestLapsVars, chunkVars>>
notAiVars == <<lapVars, posVars, telVars, loadVars, codecVars, augVars,
               stintVars, strategyVars, persistVars, loadersVars, cacheVars,
               enhanceVars, trackVars, bestLapsVars, chunkVars>>
notLoadVars == <<lapVars, posVars, telVars, aiVars, codecVars, augVars,
                 stintVars, strategyVars, persistVars, loadersVars,
                 cacheVars, enhanceVars, trackVars, bestLapsVars, chunkVars>>
notCodecVars == <<lapVars, posVars, telVars, aiVars, loadVars, augVars,
                  stintVars, strategyVars, persistVars, loadersVars,
                  cacheVars, enhanceVars, trackVars, bestLapsVars, chunkVars>>
notAugVars == <<lapVars, posVars, telVars, aiVars, loadVars, codecVars,
                stintVars, strategyVars, persistVars, loadersVars, cacheVars,
                enhanceVars, trackVars, bestLapsVars, chunkVars>>
notStintVars == <<lapVars, posVars, telVars, aiVars, loadVars, codecVars,
                  augVars, strategyVars, persistVars, loadersVars, cacheVars,
                  enhanceVars, trackVars, bestLapsVars, chunkVars>>
notStrategyVars == <<lapVars, posVars, telVars, aiVars, loadVars, codecVars,
                     augVars, stintVars, persistVars, loadersVars, cacheVars,
                     enhanceVars, trackVars, bestLapsVars, chunkVars>>
notPersistVars == <<lapVars, posVars, telVars, aiVars, loadVars, codecVars,
                    augVars, stintVars, strategyVars, loadersVars, cacheVars,
                    enhanceVars, trackVars, bestLapsVars, chunkVars>>
notLoadersVars == <<lapVars, posVars, telVars, aiVars, loadVars, codecVars,
                    augVars, stintVars, strategyVars, persistVars, cacheVars,
                    enhanceVars, trackVars, bestLapsVars, chunkVars>>
notCacheVars == <<lapVars, posVars, telVars, aiVars, loadVars, codecVars,
                  augVars, stintVars, strategyVars, persistVars, loadersVars,
                  enhanceVars, trackVars, bestLapsVars, chunkVars>>
notEnhanceVars == <<lapVars, posVars, telVars, aiVars, loadVars, codecVars,
                    augVars, stintVars, strategyVars, persistVars,
                    loadersVars, cacheVars, trackVars, bestLapsVars,
                    chunkVars>>
notTrackVars == <<lapVars, posVars, telVars, aiVars, loadVars, codecVars,
                  augVars, stintVars, strategyVars, persistVars, loadersVars,
                  cacheVars, enhanceVars, bestLapsVars, chunkVars>>
notBestLapsVars == <<lapVars, posVars, telVars, aiVars, loadVars, codecVars,
                     augVars, stintVars, strategyVars, persistVars,
                     loadersVars, cacheVars, enhanceVars, trackVars,
                     chunkVars>>
notChunkVars == <<lapVars, posVars, telVars, aiVars, loadVars, codecVars,
                  augVars, stintVars, strategyVars, persistVars, loadersVars,
                  cacheVars, enhanceVars, trackVars, bestLapsVars>>

----------------------------------------------------------------------------
(* Python's None and optional values.                                      *)
None == <<>>
Some(v) == <<v>>
IsSome(o) == o # None
Val(o) == o[1]

(* Sequences over S of length at most n.                                   *)
SeqUpTo(S, n) == UNION {[1..k -> S] : k \in 0..n}

----------------------------------------------------------------------------
(* Lap-time text "M:SS.mmm" is kept as its three digit groups.             *)
LapTimeStr(m, s, ms) == [m |-> m, s |-> s, ms |-> ms]

(* format_lap_time_from_ms: minutes = int(total_seconds // 60), seconds    *)
(* printed with 06.3f.  For an integer number of milliseconds the printed  *)
(* digits are exact.                                                       *)
format_lap_time_from_ms(milliseconds) ==
    LapTimeStr(milliseconds \div 60000,
               (milliseconds % 60000) \div 1000,
               milliseconds % 1000)

(* Exact value of a lap-time text in milliseconds.                         *)
ExactMs(str) == (str.m * 60 + str.s) * 1000 + str.ms

(* parse_lap_time computes int((minutes * 60 + float(seconds)) * 1000) in  *)
(* double precision.  For the texts listed here the product is the double  *)
(* just below the exact integer (1.001 * 1000 is 1000.9999999999999), and  *)
(* int() truncates one millisecond away.  The list holds every such text   *)
(* below "0:02.000" and among the official times this model draws.         *)
TruncatedTexts ==
    {LapTimeStr(1, 34, 4)}
    \cup {LapTimeStr(0, 1, ms) : ms \in {1, 3, 5, 7, 9, 11, 13, 15, 17, 19, 21, 23}}
parse_lap_time(lap_time_str) ==
    IF lap_time_str \in TruncatedTexts
    THEN ExactMs(lap_time_str) - 1
    ELSE ExactMs(lap_time_str)

----------------------------------------------------------------------------
(* JSON object keys.  A Python dict keyed by int, sent through jsonify and *)
(* read back with get_json, is keyed by the decimal text of the int.       *)
IntKey(n) == <<"int", n>>
StrKey(n) == <<"str", n>>
JsonKey(k) == StrKey(k[2])
jsonify_laps(laps) ==
    [k \in {JsonKey(j) : j \in DOMAIN laps} |-> laps[IntKey(k[2])]]

----------------------------------------------------------------------------
(* Lap marker rows of one vehicle: [lap, timestamp], timestamps in ms.     *)
MaxMarkers == 2
MarkerLaps == {1, 2}
StartTimes == {100000}
EndTimes == {129999, 130000, 195000, 400001}
StartRows == [lap : MarkerLaps, timestamp : StartTimes]
EndRows == [lap : MarkerLaps, timestamp : EndTimes]

(* Official best-lap entries (BESTLAP_1, BESTLAP_1_LAPNUM,                 *)
(* TOTAL_DRIVER_LAPS of one row of the best-laps file).                    *)
OfficialTimes == {LapTimeStr(1, 39, 387), LapTimeStr(1, 34, 4)}
OfficialEntries ==
    [best_lap_time : OfficialTimes, best_lap_number : {1, 3}, total_laps : {20}]

(* DataFrame.sort_values('lap'): rows in ascending lap order, rows of the  *)
(* same lap in file order.                                                 *)
RECURSIVE InsertByLap(_, _)
InsertByLap(sorted, row) ==
    IF sorted = <<>> THEN <<row>>
    ELSE IF Head(sorted).lap <= row.lap
         THEN <<Head(sorted)>> \o InsertByLap(Tail(sorted), row)
         ELSE <<row>> \o sorted
RECURSIVE SortByLap(_)
SortByLap(rows) ==
    IF rows = <<>> THEN <<>>
    ELSE InsertByLap(SortByLap(SubSeq(rows, 1, Len(rows) - 1)), rows[Len(rows)])

(* vehicle_ends[vehicle_ends['lap'] == lap_num]                            *)
MatchingEnds(ends, lap_num) == SelectSeq(ends, LAMBDA r : r.lap = lap_num)

MinLapMs == 30000
MaxLapMs == 300000

(* The validity filter of the fallback loop: a lap is skipped when         *)
(* lap_time_ms < 30000 or lap_time_ms > 300000.                            *)
SkipBoundaryLapTime(lap_time_ms) == lap_time_ms <= MinLapMs \/ lap_time_ms > MaxLapMs
SkipInvalidLapTime(lap_time_ms) == lap_time_ms < MinLapMs \/ lap_time_ms > MaxLapMs

(* The accumulator of the fallback loop.                                   *)
FallbackStart ==
    [laps |-> <<>>, best_time_ms |-> None, best_lap_num |-> None, total_laps |-> 0]

(* One iteration of "for _, start_row in vehicle_starts.iterrows()".       *)
FallbackStep(acc, start_row, ends) ==
    LET lap_num == start_row.lap
        matching_ends == MatchingEnds(ends, lap_num)
    IN  IF matching_ends = <<>> THEN acc
        ELSE
          LET lap_time_ms == matching_ends[1].timestamp - start_row.timestamp
              entry == [lap_number |-> lap_num,
                        lap_time |-> format_lap_time_from_ms(lap_time_ms),
                        lap_time_ms |-> lap_time_ms]
              better == lap_time_ms > MinLapMs
                        /\ (acc.best_time_ms = None \/ lap_time_ms < Val(acc.best_time_ms))
          IN  IF SkipInvalidLapTime(lap_time_ms) THEN acc
              ELSE [laps |-> [k \in DOMAIN acc.laps \cup {IntKey(lap_num)} |->
                                IF k = IntKey(lap_num) THEN entry ELSE acc.laps[k]],
                    best_time_ms |-> IF better THEN Some(lap_time_ms) ELSE acc.best_time_ms,
                    best_lap_num |-> IF better THEN Some(lap_num) ELSE acc.best_lap_num,
                    total_laps |-> acc.total_laps + 1]

RECURSIVE FallbackLoop(_, _, _)
FallbackLoop(acc, starts, ends) ==
    IF starts = <<>> THEN acc
    ELSE FallbackLoop(FallbackStep(acc, Head(starts), ends), Tail(starts), ends)

(* The result dict of get_fallback_lap_data, before jsonify.               *)
FallbackResult(starts, ends) ==
    LET acc == FallbackLoop(FallbackStart, SortByLap(starts), SortByLap(ends))
    IN  [laps |-> acc.laps,
         best_lap |-> acc.best_lap_num,
         best_lap_time |-> IF IsSome(acc.best_lap_num)
                           THEN Some(acc.laps[IntKey(Val(acc.best_lap_num))].lap_time)
                           ELSE None,
         best_lap_time_ms |-> acc.best_time_ms,
         total_laps |-> acc.total_laps]

ErrorBody(msg) == [error |-> msg]

(* get_fallback_lap_data returns either the pair (response, status) for an *)
(* error or a bare response object for a result: is_tuple tells which.     *)
get_fallback_lap_data(lapdata, starts, ends) ==
    IF "start" \notin lapdata \/ "end" \notin lapdata
    THEN [is_tuple |-> TRUE, status |-> 404,
          body |-> ErrorBody("No lap timing data available")]
    ELSE IF Len(starts) = 0 \/ Len(ends) = 0
    THEN [is_tuple |-> TRUE, status |-> 404,
          body |-> ErrorBody("No lap timing data found for vehicle")]
    ELSE LET result == FallbackResult(starts, ends)
         IN  [is_tuple |-> FALSE, status |-> 200,
              body |-> [result EXCEPT !.laps = jsonify_laps(result.laps)]]

(* hasattr(fallback_result, 'get_json'): a tuple has no such attribute.    *)
HasGetJson(fallback_result) == ~fallback_result.is_tuple

(* The merge of get_lap_data for a car of the official table.  result is   *)
(* fallback_result.get_json(): its laps are keyed by text, and the test    *)
(* "official best_lap_number in result['laps']" looks an int up in them.   *)
MergeOfficial(result, official_data) ==
    LET best_lap_time_ms == parse_lap_time(official_data.best_lap_time)
        key == IntKey(official_data.best_lap_number)
        overridden == [result EXCEPT
                         !.best_lap = Some(official_data.best_lap_number),
                         !.best_lap_time = Some(official_data.best_lap_time),
                         !.best_lap_time_ms = Some(best_lap_time_ms),
                         !.total_laps = official_data.total_laps]
    IN  IF key \in DOMAIN overridden.laps
        THEN [overridden EXCEPT
                !.laps[key].lap_time = official_data.best_lap_time,
                !.laps[key].lap_time_ms = best_lap_time_ms]
        ELSE overridden

(* The response of GET /api/laps/{race}/{vehicle}.                         *)
get_lap_data(official, lapdata, starts, ends) ==
    LET fallback_result == get_fallback_lap_data(lapdata, starts, ends)
    IN  IF official = None
        THEN [status |-> fallback_result.status, body |-> fallback_result.body]
        ELSE IF HasGetJson(fallback_result) /\ "error" \in DOMAIN fallback_result.body
        THEN [status |-> 200,
              body |-> [laps |-> <<>>,
                        best_lap |-> Some(Val(official).best_lap_number),
                        best_lap_time |-> Some(Val(official).best_lap_time),
                        best_lap_time_ms |-> Some(parse_lap_time(Val(official).best_lap_time)),
                        total_laps |-> Val(official).total_laps]]
        ELSE IF ~HasGetJson(fallback_result)
        THEN \* fallback_result.get_json() raises AttributeError: the outer except answers
             [status |-> 500, body |-> ErrorBody("'tuple' object has no attribute 'get_json'")]
        ELSE [status |-> 200, body |-> MergeOfficial(fallback_result.body, Val(official))]

LapsInit ==
    /\ best_laps_data \in {None} \cup {Some(e) : e \in OfficialEntries}
    /\ lap_data \in {{"start", "end"}, {"start"}, {}}
    /\ vehicle_starts \in SeqUpTo(StartRows, MaxMarkers)
    /\ vehicle_ends \in SeqUpTo(EndRows, MaxMarkers)
    /\ fallback_body = None
    /\ lap_response = None

(* GET /api/laps/{race}/{vehicle}                                          *)
GetLapData ==
    /\ lap_response = None
    /\ lap_response' = Some(get_lap_data(best_laps_data, lap_data, vehicle_starts, vehicle_ends))
    /\ fallback_body' = IF get_fallback_lap_data(lap_data, vehicle_starts, vehicle_ends).is_tuple
                        THEN None
                        ELSE Some(FallbackResult(vehicle_starts, vehicle_ends))
    /\ UNCHANGED <<best_laps_data, lap_data, vehicle_starts, vehicle_ends, notLapVars>>

----------------------------------------------------------------------------
(* Claims about /api/laps.                                                 *)

LapAnswered == lap_response # None
LapBody == Val(lap_response).body
IsLapResult(body) == "best_lap" \in DOMAIN body

(* C1: for a car of the official best-lap table the lap response's         *)
(* best_lap, best_lap_time and total_laps are the official values,         *)
(* whatever the fallback computation produced (also no markers at all).    *)
C1_OfficialSummaryAlways ==
    (LapAnswered /\ best_laps_data # None) =>
        /\ IsLapResult(LapBody)
        /\ LapBody.best_lap = Some(Val(best_laps_data).best_lap_number)
        /\ LapBody.best_lap_time = Some(Val(best_laps_data).best_lap_time)
        /\ LapBody.total_laps = Val(best_laps_data).total_laps

(* C2: when the official best lap number is a lap of the fallback per-lap  *)
(* map, that lap's lap_time and lap_time_ms in the returned map are the    *)
(* official text and its parsed milliseconds.                              *)
C2_OfficialLapOverwritten ==
    (/\ LapAnswered
     /\ best_laps_data # None
     /\ fallback_body # None
     /\ IntKey(Val(best_laps_data).best_lap_number) \in DOMAIN Val(fallback_body).laps) =>
        LET n == Val(best_laps_data).best_lap_number
        IN  /\ IsLapResult(LapBody)
            /\ StrKey(n) \in DOMAIN LapBody.laps
            /\ LapBody.laps[StrKey(n)].lap_time = Val(best_laps_data).best_lap_time
            /\ LapBody.laps[StrKey(n)].lap_time_ms =
                   parse_lap_time(Val(best_laps_data).best_lap_time)

(* The duration of lap lap_num as the fallback loop takes it: from a       *)
(* start row of that lap to the first end row of that lap.                 *)
HasMatchedMarkers(lap_num) ==
    /\ \E i \in 1..Len(vehicle_starts) : vehicle_starts[i].lap = lap_num
    /\ MatchingEnds(vehicle_ends, lap_num) # <<>>
MatchedDuration(lap_num) ==
    LET start_row == CHOOSE r \in {vehicle_starts[i] : i \in 1..Len(vehicle_starts)} :
                        r.lap = lap_num
    IN  MatchingEnds(SortByLap(vehicle_ends), lap_num)[1].timestamp - start_row.timestamp

(* C13: in the fallback lap computation a lap whose start and end markers  *)
(* match by lap number is in the returned lap map if and only if its       *)
(* duration d satisfies 30000 ms <= d <= 300000 ms.                        *)
C13_LapKeptIffPlausible ==
    (LapAnswered /\ best_laps_data = None /\ Val(lap_response).status = 200) =>
        \A lap_num \in MarkerLaps :
            StrKey(lap_num) \in DOMAIN LapBody.laps
            <=> /\ HasMatchedMarkers(lap_num)
                /\ MatchedDuration(lap_num) >= 30000
                /\ MatchedDuration(lap_num) <= 300000

(* A fallback answer that keeps a lap of exactly 30000 ms and leaves a lap *)
(* of 300001 ms out.                                                       *)
C13_Witness ==
    /\ LapAnswered /\ best_laps_data = None /\ Val(lap_response).status = 200
    /\ \E a, b \in MarkerLaps :
          /\ HasMatchedMarkers(a) /\ MatchedDuration(a) = 30000
          /\ StrKey(a) \in DOMAIN LapBody.laps
          /\ LapBody.laps[StrKey(a)].lap_time_ms = 30000
          /\ HasMatchedMarkers(b) /\ MatchedDuration(b) = 300001
          /\ StrKey(b) \notin DOMAIN LapBody.laps

(* C26: in the fallback lap computation, whenever the returned lap map is  *)
(* non-empty the summary is set and consistent with it: best_lap is a key  *)
(* of the lap map, best_lap_time is that lap's time, and no lap in the map *)
(* has a smaller lap_time_ms than the best lap.                            *)
C26_FallbackSummaryConsistent ==
    (fallback_body # None /\ Val(fallback_body).laps # <<>>) =>
        LET result == Val(fallback_body)
        IN  /\ result.best_lap # None
            /\ IntKey(Val(result.best_lap)) \in DOMAIN result.laps
            /\ result.best_lap_time
                   = Some(result.laps[IntKey(Val(result.best_lap))].lap_time)
            /\ \A k \in DOMAIN result.laps :
                   result.laps[k].lap_time_ms
                       >= result.laps[IntKey(Val(result.best_lap))].lap_time_ms

----------------------------------------------------------------------------
(* /api/race/{race}/positions                                              *)

NumCars == 3
CarNumbers == 1..NumCars

(* What the data files hold about one car number:                          *)
(*   official : the car number is a key of the official best-lap table     *)
(*   vehicle  : telemetry has a vehicle id "GR86-xxx-<car number>"         *)
(*   diff     : seconds between the target and the vehicle's nearest row   *)
(*   lap      : the lap column of that nearest row-set                     *)
(*   dist     : its Laptrigger_lapdist_dls value, None when absent         *)
(*   start    : the vehicle's latest lap-start marker at or before the     *)
(*              target, as [lap, elapsed seconds], None when there is none *)
Profile(official, vehicle, diff, lap, dist, start) ==
    [official |-> official, vehicle |-> vehicle, diff |-> diff, lap |-> lap,
     dist |-> dist, start |-> start]
Absent == Profile(FALSE, FALSE, 0, 1, None, None)
Profiles ==
    { Absent,
      Profile(TRUE, FALSE, 0, 1, None, None),
      Profile(FALSE, TRUE, 0, 3, Some(100), None),
      Profile(FALSE, TRUE, 300, 2, Some(3600), None),
      Profile(FALSE, TRUE, 0, 3, Some(50), None),
      Profile(TRUE, TRUE, 0, 2, None, None),
      Profile(FALSE, TRUE, 301, 2, Some(100), None),
      Profile(FALSE, TRUE, 301, 2, Some(100), Some([lap |-> 2, elapsed |-> 50])),
      Profile(TRUE, TRUE, 301, 2, Some(100), None) }

(* Raw values of the expected_lap query parameter: absent (None), the     *)
(* empty text, a text int() rejects, or the decimal text of an integer.    *)
EmptyText == [kind |-> "empty", n |-> 0]
GarbageText == [kind |-> "garbage", n |-> 0]
IntText(n) == [kind |-> "int", n |-> n]
ExpectedLapArgs == {None, Some(EmptyText), Some(GarbageText), Some(IntText(0)), Some(IntText(2))}
TargetOffsets == {60, 1200}
(* hash(str(car_number)) is drawn per process; these are representatives.  *)
HashValues == {0, 2999}

track_length == 3710
MidLapEstimate == 1855
TelemetryTolerance == 300
AvgLapTime == 100

(* Lines 551-557: "if expected_lap:" converts a non-empty text with int(); *)
(* a ValueError gives None; an empty text is left as it is.                *)
parse_expected_lap(arg) ==
    IF arg = None THEN None
    ELSE IF Val(arg).kind = "empty" THEN arg
    ELSE IF Val(arg).kind = "int" THEN arg
    ELSE None

IsIntLap(expected_lap) == expected_lap # None /\ Val(expected_lap).kind = "int"

(* Truthiness of the parsed expected_lap ("if expected_lap:", line 727):   *)
(* None, the empty text and 0 are false.                                   *)
Truthy(expected_lap) == IsIntLap(expected_lap) /\ Val(expected_lap).n # 0

(* all_participants: the keys of the best-lap table and the car numbers    *)
(* parsed from the telemetry vehicle ids.                                  *)
all_participants(f) == {c \in DOMAIN f : f[c].official \/ f[c].vehicle}

VehicleId(c) == <<"GR86", c, c>>
PlaceholderId(c) == <<"Car", c>>

TotalDistance(lap, lap_distance) == (lap - 1) * track_length + lap_distance

Min(a, b) == IF a < b THEN a ELSE b
Max(a, b) == IF a > b THEN a ELSE b

(* The loop body of STEP 2 for one car.  The result is None when the body  *)
(* raised (the except clause logs and continues), else Some(position_data).*)
ProcessCar(c, p, expected_lap) ==
    LET default == [car_number |-> c,
                    vehicle_id |-> IF p.vehicle THEN VehicleId(c) ELSE PlaceholderId(c),
                    lap |-> 1, lap_distance |-> 0, total_distance |-> 0,
                    data_source |-> "estimated", needs_sync |-> FALSE]
        method1 == p.vehicle /\ p.diff <= TelemetryTolerance
        lap_distance == IF p.dist = None THEN MidLapEstimate ELSE Val(p.dist)
        override_lap == IF expected_lap # None THEN Val(expected_lap).n ELSE p.lap
        method2 == ~method1 /\ p.vehicle /\ p.start # None
        est_dist == (Min(Val(p.start).elapsed, AvgLapTime) * track_length) \div AvgLapTime
        method3 == ~method1 /\ ~method2 /\ p.official
    IN  IF method1
        THEN IF expected_lap = Some(EmptyText)
             THEN None      \* ('' - 1) raises TypeError
             ELSE Some([default EXCEPT
                          !.lap = override_lap,
                          !.lap_distance = lap_distance,
                          !.total_distance = TotalDistance(override_lap, lap_distance),
                          !.data_source = IF expected_lap # None
                                          THEN "telemetry_synchronized" ELSE "telemetry"])
        ELSE IF method2
        THEN Some([default EXCEPT
                     !.lap = Val(p.start).lap,
                     !.lap_distance = est_dist,
                     !.total_distance = TotalDistance(Val(p.start).lap, est_dist),
                     !.data_source = "lap_timing"])
        ELSE IF method3
        THEN Some([default EXCEPT
                     !.lap = 1, !.lap_distance = MidLapEstimate,
                     !.total_distance = MidLapEstimate,
                     !.data_source = "synchronized_estimate",
                     !.needs_sync = TRUE])
        ELSE Some(default)

(* STEP 2 over the participants in iteration order.                        *)
RECURSIVE CollectPositions(_, _, _)
CollectPositions(order, f, expected_lap) ==
    IF order = <<>> THEN <<>>
    ELSE LET r == ProcessCar(Head(order), f[Head(order)], expected_lap)
         IN  (IF r = None THEN <<>> ELSE <<Val(r)>>)
             \o CollectPositions(Tail(order), f, expected_lap)

RECURSIVE SumSeq(_)
SumSeq(q) == IF q = <<>> THEN 0 ELSE Head(q) + SumSeq(Tail(q))
RECURSIVE MaxSeq(_)
MaxSeq(q) == IF Len(q) = 1 THEN q[1] ELSE Max(Head(q), MaxSeq(Tail(q)))

(* Lines 724-741: the lap context [current_race_lap, max_lap], or None.    *)
RaceLapContext(positions, expected_lap) ==
    LET telemetry_cars == SelectSeq(positions, LAMBDA pos : pos.data_source = "telemetry")
        telemetry_laps == [i \in 1..Len(telemetry_cars) |-> telemetry_cars[i].lap]
    IN  IF Truthy(expected_lap)
        THEN Some([current_race_lap |-> Val(expected_lap).n, max_lap |-> Val(expected_lap).n])
        ELSE IF telemetry_cars # <<>>
        THEN Some([current_race_lap |-> SumSeq(telemetry_laps) \div Len(telemetry_laps),
                   max_lap |-> MaxSeq(telemetry_laps)])
        ELSE None

(* Lines 743-796: the synchronization of one position entry.               *)
Synchronize(pos, context, h, offset, f) ==
    IF ~pos.needs_sync THEN pos
    ELSE IF context # None
    THEN IF f[pos.car_number].official
         THEN LET lap_variation == (h[pos.car_number] % 3) - 1
                  estimated_lap == Min(Max(1, Val(context).current_race_lap + lap_variation),
                                       Val(context).max_lap)
                  lap_distance == Max(0, Min(MidLapEstimate
                                             + ((h[pos.car_number] % 1000) - 500),
                                             track_length))
              IN  [pos EXCEPT !.lap = estimated_lap,
                              !.lap_distance = lap_distance,
                              !.total_distance = TotalDistance(estimated_lap, lap_distance),
                              !.data_source = "synchronized_estimate",
                              !.needs_sync = FALSE]
         ELSE pos
    ELSE LET estimated_current_lap == Max(1, offset \div 120)
         IN  [pos EXCEPT !.lap = estimated_current_lap,
                         !.lap_distance = MidLapEstimate,
                         !.total_distance = TotalDistance(estimated_current_lap, MidLapEstimate),
                         !.data_source = "timestamp_estimate",
                         !.needs_sync = FALSE]

(* positions.sort(key=total_distance, reverse=True): a stable sort, equal  *)
(* keys keep their order.                                                  *)
RECURSIVE InsertAscending(_, _)
InsertAscending(sorted, pos) ==
    IF sorted = <<>> THEN <<pos>>
    ELSE IF Head(sorted).total_distance <= pos.total_distance
         THEN <<Head(sorted)>> \o InsertAscending(Tail(sorted), pos)
         ELSE <<pos>> \o sorted
RECURSIVE InsertDescending(_, _)
InsertDescending(sorted, pos) ==
    IF sorted = <<>> THEN <<pos>>
    ELSE IF Head(sorted).total_distance >= pos.total_distance
         THEN <<Head(sorted)>> \o InsertDescending(Tail(sorted), pos)
         ELSE <<pos>> \o sorted
RECURSIVE SortDescending(_)
SortDescending(positions) ==
    IF positions = <<>> THEN <<>>
    ELSE InsertDescending(SortDescending(SubSeq(positions, 1, Len(positions) - 1)),
                          positions[Len(positions)])

(* for i, pos in enumerate(positions): pos['race_position'] = i + 1        *)
AddRacePositions(positions) ==
    [i \in 1..Len(positions) |->
        [car_number |-> positions[i].car_number,
         vehicle_id |-> positions[i].vehicle_id,
         lap |-> positions[i].lap,
         lap_distance |-> positions[i].lap_distance,
         total_distance |-> positions[i].total_distance,
         data_source |-> positions[i].data_source,
         needs_sync |-> positions[i].needs_sync,
         race_position |-> i]]

(* The data source breakdown of lines 808-811.                             *)
DataSources(positions) ==
    LET labels == {positions[i].data_source : i \in 1..Len(positions)}
    IN  [l \in labels |-> Cardinality({i \in 1..Len(positions) : positions[i].data_source = l})]

(* The whole handler, for one iteration order of the participant set and   *)
(* one hash assignment.                                                    *)
get_race_positions_at_time(f, arg, offset, order, h) ==
    LET expected_lap == parse_expected_lap(arg)
        collected == CollectPositions(order, f, expected_lap)
        context == RaceLapContext(collected, expected_lap)
        synced == [i \in 1..Len(collected) |-> Synchronize(collected[i], context, h, offset, f)]
        positions == AddRacePositions(SortDescending(synced))
    IN  IF all_participants(f) = {}
        THEN [status |-> 404, body |-> ErrorBody("No race data found")]
        ELSE [status |-> 200,
              body |-> [positions |-> positions,
                        total_cars |-> Len(positions),
                        data_sources |-> DataSources(positions)]]

(* The orders in which the set all_participants is iterated: the          *)
(* ascending and the descending one stand for the orders a set can take.  *)
Orders(S) ==
    {q \in [1..Cardinality(S) -> S] :
        \/ \A i, j \in DOMAIN q : i < j => q[i] < q[j]
        \/ \A i, j \in DOMAIN q : i < j => q[i] > q[j]}

PosInit ==
    /\ field \in [CarNumbers -> Profiles]
    /\ expected_lap_arg \in ExpectedLapArgs
    /\ target_offset \in TargetOffsets
    /\ current_race_lap = None
    /\ pos_response = None

(* GET /api/race/{race}/positions?timestamp=...&expected_lap=...           *)
GetRacePositions ==
    /\ pos_response = None
    /\ \E order \in Orders(all_participants(field)) :
       \E h \in [{c \in all_participants(field) :
                    field[c].official /\ (~field[c].vehicle \/ field[c].diff > TelemetryTolerance)}
                 -> HashValues] :
          /\ pos_response' = Some(get_race_positions_at_time(
                                      field, expected_lap_arg, target_offset, order, h))
          /\ current_race_lap' =
                LET expected_lap == parse_expected_lap(expected_lap_arg)
                    context == RaceLapContext(CollectPositions(order, field, expected_lap),
                                              expected_lap)
                IN  IF context = None THEN None ELSE Some(Val(context).current_race_lap)
    /\ UNCHANGED <<field, expected_lap_arg, target_offset, notPosVars>>

----------------------------------------------------------------------------
(* Claims about /api/race/{race}/positions.                                *)

PosAnswered == pos_response # None
PosOk == PosAnswered /\ Val(pos_response).status = 200
PosList == Val(pos_response).body.positions
PosCars == {PosList[i].car_number : i \in 1..Len(PosList)}

(* C3: in every successful positions response each entry has              *)
(* total_distance = (lap - 1) * 3710 + lap_distance, the list is sorted by *)
(* total_distance in descending order, and race_position is 1..N in list   *)
(* order.                                                                  *)
C3_RankedByTotalDistance ==
    PosOk =>
        /\ \A i \in 1..Len(PosList) :
              /\ PosList[i].total_distance = (PosList[i].lap - 1) * 3710 + PosList[i].lap_distance
              /\ PosList[i].race_position = i
        /\ \A i, j \in 1..Len(PosList) :
              i < j => PosList[i].total_distance >= PosList[j].total_distance

(* The example of the claim: (3,100), (2,3600), (3,50) rank car 1, car 3,  *)
(* car 2.                                                                  *)
C3_Witness ==
    /\ PosOk
    /\ Len(PosList) = 3
    /\ [i \in 1..3 |-> PosList[i].car_number] = <<1, 3, 2>>
    /\ [i \in 1..3 |-> PosList[i].lap] = <<3, 3, 2>>
    /\ [i \in 1..3 |-> PosList[i].lap_distance] = <<100, 50, 3600>>
    /\ [i \in 1..3 |-> PosList[i].race_position] = <<1, 2, 3>>

(* C4: a successful positions response holds exactly one entry for every   *)
(* car number of the union of the official table and the telemetry         *)
(* vehicle ids, and total_cars is the size of that union.                  *)
C4_CompleteField ==
    PosOk =>
        /\ PosCars = all_participants(field)
        /\ Len(PosList) = Cardinality(all_participants(field))
        /\ Val(pos_response).body.total_cars = Cardinality(all_participants(field))

SourceLabels ==
    {"telemetry", "telemetry_synchronized", "lap_timing", "synchronized_estimate",
     "timestamp_estimate"}

(* C5: every entry, and every key of the data_sources breakdown, carries   *)
(* one of the five data source labels, and no entry still has needs_sync.  *)
C5_KnownSourceLabels ==
    PosOk =>
        /\ \A i \in 1..Len(PosList) :
              PosList[i].data_source \in SourceLabels /\ ~PosList[i].needs_sync
        /\ DOMAIN Val(pos_response).body.data_sources \subseteq SourceLabels

(* C6: with an expected_lap override every car resolved by exact telemetry *)
(* match reports lap = expected_lap, labelled telemetry_synchronized, with *)
(* the lap_distance read from telemetry, and current_race_lap is           *)
(* expected_lap.                                                           *)
C6_OverrideIsAuthoritative ==
    (PosOk /\ expected_lap_arg # None /\ Val(expected_lap_arg).kind = "int") =>
        LET e == Val(expected_lap_arg).n
        IN  /\ \A i \in 1..Len(PosList) :
                  LET p == field[PosList[i].car_number]
                  IN  (p.vehicle /\ p.diff <= 300) =>
                          /\ PosList[i].lap = e
                          /\ PosList[i].data_source = "telemetry_synchronized"
                          /\ PosList[i].lap_distance = IF p.dist = None THEN 1855 ELSE Val(p.dist)
            /\ current_race_lap = Some(e)

----------------------------------------------------------------------------
(* /api/telemetry/{race}/{vehicle}/chunk and /position                     *)

MaxSample == 2
(* Timestamps (ms) at which the vehicle may have telemetry rows: one       *)
(* position tolerance (5 s) apart.                                         *)
TimePoints == {k * 5000 : k \in 0..MaxSample}

Lat == "VBOX_Lat_Min"
Lon == "VBOX_Long_Minutes"
Marker == "lap_completion_marker"
(* The telemetry_name values of the rows that share one timestamp.         *)
Groups == {{Lat, Lon, "speed"}, {Lat, "speed"}, {Lon}, {"speed"}}

(* The telemetry_value of a row.                                          *)
ValueOf(channel, timestamp) == <<channel, timestamp>>

VehicleDatas ==
    {None} \cup {Some(d) : d \in UNION {[T -> Groups] : T \in SUBSET TimePoints \ {{}}}}
MarkerTimeSets == {{}, {5000}, {5100}}

Targets == {2500, 10000, 15000, 15001}
RangeEnds == {None, Some(5000)}

(* load_augmented_telemetry_data: the vehicle's rows plus the synthetic    *)
(* marker rows, as timestamp -> channel group; None when augmentation      *)
(* gave nothing.                                                           *)
load_augmented_telemetry_data(data, markers) ==
    IF data = None \/ markers = None THEN None
    ELSE LET d == Val(data)
             times == DOMAIN d \cup Val(markers)
         IN  Some([t \in times |->
                     (IF t \in DOMAIN d THEN d[t] ELSE {})
                     \cup (IF t \in Val(markers) THEN {Marker} ELSE {})])

(* telemetry_dict.get(name)                                                *)
Get(telemetry_dict, name, timestamp) ==
    IF name \in telemetry_dict THEN Some(ValueOf(name, timestamp)) ELSE None

(* The point built from the rows of one timestamp.                         *)
BuildPoint(timestamp, telemetry_dict) ==
    [timestamp |-> timestamp,
     latitude |-> Get(telemetry_dict, Lat, timestamp),
     longitude |-> Get(telemetry_dict, Lon, timestamp),
     speed |-> Get(telemetry_dict, "speed", timestamp)]

(* 'VBOX_Lat_Min' in telemetry_dict and 'VBOX_Long_Minutes' in             *)
(* telemetry_dict                                                          *)
HasEitherGps(telemetry_dict) == Lat \in telemetry_dict \/ Lon \in telemetry_dict
HasGps(telemetry_dict) == Lat \in telemetry_dict /\ Lon \in telemetry_dict

(* The elements of a set of numbers in ascending order.                    *)
RECURSIVE Ascending(_)
Ascending(S) ==
    IF S = {} THEN <<>>
    ELSE LET least == CHOOSE x \in S : \A y \in S : x <= y
         IN  <<least>> \o Ascending(S \ {least})

InRange(t, start_time, end_time) ==
    /\ (start_time # None => t >= Val(start_time))
    /\ (end_time # None => t <= Val(end_time))

(* The whole handler of GET .../chunk.                                     *)
get_telemetry_chunk(data, markers, start_time, end_time, augmented) ==
    LET augmented_data == IF augmented THEN load_augmented_telemetry_data(data, markers)
                          ELSE None
        use_augmented == augmented /\ augmented_data # None
        chosen == IF use_augmented THEN augmented_data ELSE data
    IN  IF chosen = None
        THEN [status |-> 404, body |-> ErrorBody("Vehicle not found")]
        ELSE LET d == Val(chosen)
                 times == Ascending({t \in DOMAIN d : InRange(t, start_time, end_time)})
                 kept == SelectSeq(times, LAMBDA t : HasGps(d[t]))
                 chunk_data == [i \in 1..Len(kept) |-> BuildPoint(kept[i], d[kept[i]])]
             IN  [status |-> 200,
                  body |-> [data |-> chunk_data,
                            total_points |-> Len(chunk_data),
                            augmented |-> use_augmented]]

Abs(x) == IF x < 0 THEN -x ELSE x

(* time_diff.idxmin(): the first row, in timestamp order, of least         *)
(* absolute difference.                                                    *)
ClosestTimestamp(d, target) ==
    CHOOSE t \in DOMAIN d :
        \A u \in DOMAIN d :
            \/ Abs(t - target) < Abs(u - target)
            \/ (Abs(t - target) = Abs(u - target) /\ t <= u)

PositionTolerance == 5000

(* time_diff.loc[closest_idx].total_seconds() > 5                          *)
TooFarInclusive(time_diff) == time_diff >= PositionTolerance
TooFar(time_diff) == time_diff > PositionTolerance

(* The whole handler of GET .../position; target is None when the          *)
(* timestamp parameter is missing.                                         *)
get_position_at_time(data, target) ==
    IF target = None
    THEN [status |-> 400, body |-> ErrorBody("timestamp parameter required")]
    ELSE IF data = None
    THEN [status |-> 404, body |-> ErrorBody("Vehicle not found")]
    ELSE LET d == Val(data)
             closest_timestamp == ClosestTimestamp(d, Val(target))
         IN  IF TooFar(Abs(closest_timestamp - Val(target)))
             THEN [status |-> 404, body |-> ErrorBody("No data found near timestamp")]
             ELSE IF ~HasGps(d[closest_timestamp])
             THEN [status |-> 404, body |-> ErrorBody("No GPS data at timestamp")]
             ELSE [status |-> 200, body |-> BuildPoint(closest_timestamp, d[closest_timestamp])]

TelInit ==
    /\ vehicle_data \in VehicleDatas
    /\ marker_times \in {None} \cup {Some(m) : m \in MarkerTimeSets}
    /\ (vehicle_data = None => marker_times = None)
    /\ tel_request = None
    /\ tel_response = None

(* GET /api/telemetry/{race}/{vehicle}/chunk                               *)
GetTelemetryChunk ==
    \E start_time \in RangeEnds, end_time \in RangeEnds, augmented \in BOOLEAN :
        /\ tel_request' = Some([kind |-> "chunk", start_time |-> start_time,
                                end_time |-> end_time, augmented |-> augmented,
                                target |-> None])
        /\ tel_response' = Some(get_telemetry_chunk(vehicle_data, marker_times,
                                                    start_time, end_time, augmented))
        /\ UNCHANGED <<vehicle_data, marker_times, notTelVars>>

(* GET /api/telemetry/{race}/{vehicle}/position                            *)
GetPositionAtTime ==
    \E target \in {None} \cup {Some(t) : t \in Targets} :
        /\ tel_request' = Some([kind |-> "position", start_time |-> None,
                                end_time |-> None, augmented |-> FALSE,
                                target |-> target])
        /\ tel_response' = Some(get_position_at_time(vehicle_data, target))
        /\ UNCHANGED <<vehicle_data, marker_times, notTelVars>>

----------------------------------------------------------------------------
(* Claims about the telemetry endpoints.                                   *)

TelAnswered == tel_response # None
TelKind == Val(tel_request).kind
TelStatus == Val(tel_response).status
TelBody == Val(tel_response).body

(* The rows a chunk request reads: the merged dataset when it was used.    *)
ChunkSource ==
    IF TelBody.augmented
    THEN Val(load_augmented_telemetry_data(vehicle_data, marker_times))
    ELSE Val(vehicle_data)

(* The least distance between the target and a sample of the vehicle.      *)
NearestDistance ==
    LET d == Val(vehicle_data)
        target == Val(Val(tel_request).target)
    IN  CHOOSE m \in {Abs(t - target) : t \in DOMAIN d} :
            \A t \in DOMAIN d : m <= Abs(t - target)

(* The samples at that least distance.                                     *)
NearestSamples ==
    LET target == Val(Val(tel_request).target)
    IN  {t \in DOMAIN Val(vehicle_data) : Abs(t - target) = NearestDistance}

(* C7: every emitted point of a chunk or position response has latitude    *)
(* and longitude; a timestamp group that lacks either GPS channel is not   *)
(* in the chunk output and is answered with 404 by the position endpoint.  *)
C7_PointsHaveGps ==
    (TelAnswered /\ TelStatus = 200) =>
        IF TelKind = "chunk"
        THEN \A i \in 1..Len(TelBody.data) :
                LET pt == TelBody.data[i]
                IN  /\ pt.latitude # None /\ pt.longitude # None
                    /\ pt.timestamp \in DOMAIN ChunkSource
                    /\ {"VBOX_Lat_Min", "VBOX_Long_Minutes"} \subseteq ChunkSource[pt.timestamp]
        ELSE /\ TelBody.latitude # None /\ TelBody.longitude # None
             /\ {"VBOX_Lat_Min", "VBOX_Long_Minutes"} \subseteq Val(vehicle_data)[TelBody.timestamp]

(* A chunk answer that left a group without GPS out and kept another.      *)
C7_Witness ==
    /\ TelAnswered /\ TelStatus = 200 /\ TelKind = "chunk"
    /\ Len(TelBody.data) >= 1
    /\ \E t \in DOMAIN ChunkSource :
          /\ InRange(t, Val(tel_request).start_time, Val(tel_request).end_time)
          /\ "VBOX_Lat_Min" \in ChunkSource[t]
          /\ "VBOX_Long_Minutes" \notin ChunkSource[t]

PositionAsked ==
    /\ TelAnswered /\ TelKind = "position"
    /\ Val(tel_request).target # None
    /\ vehicle_data # None

(* C8 as stated: 404 when the nearest sample is more than 5 seconds away,  *)
(* a point when it is exactly 5.0 seconds away or closer.                  *)
C8_PointWithinFiveSeconds ==
    PositionAsked =>
        /\ (NearestDistance > 5000 => TelStatus = 404)
        /\ (NearestDistance <= 5000 => TelStatus = 200)

(* C8 amended: 404 when the nearest sample is more than 5 seconds away;    *)
(* when it is exactly 5.0 seconds away or closer, a point of that sample   *)
(* if its timestamp group has both GPS channels, and 404 otherwise.        *)
C8_PointWithinFiveSecondsIfGps ==
    PositionAsked =>
        /\ (NearestDistance > 5000 => TelStatus = 404)
        /\ (NearestDistance <= 5000 =>
               LET t == CHOOSE u \in NearestSamples : \A w \in NearestSamples : u <= w
                   gps == {"VBOX_Lat_Min", "VBOX_Long_Minutes"} \subseteq Val(vehicle_data)[t]
               IN  /\ (gps => TelStatus = 200 /\ TelBody.timestamp = t)
                   /\ (~gps => TelStatus = 404))

(* A point answered for a sample exactly 5.0 seconds from the target.      *)
C8_Witness ==
    /\ PositionAsked
    /\ NearestDistance = PositionTolerance
    /\ TelStatus = 200

----------------------------------------------------------------------------
(* /api/ai/analyze, /api/ai/test-connection, /api/ai/reset-agent           *)

MaxAgents == 2
MaxTurns == 2
AgentIds == 1..MaxAgents

(* The body of a POST /api/ai/analyze request.                             *)
(*   json     : "none" (no JSON body), "null", "empty" ({}), "object"      *)
(*   question : "missing", "null", "empty", "blank" or "text"              *)
(*   race_id, vehicle_id : whether the field is present and non-empty      *)
AnalyzeRequests ==
    [kind : {"analyze"}, json : {"none", "null", "empty"}, question : {"missing"},
     race_id : {FALSE}, vehicle_id : {FALSE}]
    \cup
    [kind : {"analyze"}, json : {"object"},
     question : {"missing", "null", "empty", "blank", "text"},
     race_id : BOOLEAN, vehicle_id : BOOLEAN]

(* A JSON response body: its keys, and the value of its success key.       *)
ErrorOnly(status) == [status |-> status, keys |-> {"error"}, success |-> None]
Failure(status, keys) == [status |-> status, keys |-> keys, success |-> Some(FALSE)]
Success(keys) == [status |-> 200, keys |-> keys, success |-> Some(TRUE)]

AnalysisFailed == Failure(500, {"success", "error", "error_type"})

(* get_racing_agent(): the singleton of module racing_agent, created when  *)
(* that module's global is None.                                           *)
get_racing_agent(instance, created) ==
    IF instance = None
    THEN [instance |-> Some(created + 1), created |-> created + 1]
    ELSE [instance |-> instance, created |-> created]

(* The agent called with a question: a successful call adds a turn to its  *)
(* conversation.                                                           *)
CallAgent(mem, agent, ok) ==
    IF ok THEN [mem EXCEPT ![agent] = @ + 1] ELSE mem

(* The validation of analyze_racing_question (lines 1250-1262): None when  *)
(* the request passes, else Some(response).  request.get_json() on a       *)
(* request without a JSON body either raises (the except clause answers)   *)
(* or gives None, depending on the framework version: raises tells which.  *)
ValidateAnalyze(req, raises) ==
    IF req.json = "none" /\ raises THEN Some(AnalysisFailed)
    ELSE IF req.json \in {"none", "null", "empty"} THEN Some(ErrorOnly(400))
    ELSE IF req.question = "null" THEN Some(AnalysisFailed)   \* None.strip()
    ELSE IF req.question \in {"missing", "empty", "blank"} THEN Some(ErrorOnly(400))
    ELSE IF ~req.race_id \/ ~req.vehicle_id THEN Some(ErrorOnly(400))
    ELSE None

AiInit ==
    /\ racing_agent_instance = None
    /\ api_server_global = "undefined"
    /\ agents_created = 0
    /\ memory = [a \in AgentIds |-> 0]
    /\ pre_reset = None
    /\ ai_request = None
    /\ ai_response = None

(* POST /api/ai/analyze, rejected before the agent is fetched.             *)
AnalyzeRejected ==
    \E req \in AnalyzeRequests, raises \in BOOLEAN :
        /\ ValidateAnalyze(req, raises) # None
        /\ ai_request' = Some(req)
        /\ ai_response' = ValidateAnalyze(req, raises)
        /\ UNCHANGED <<racing_agent_instance, api_server_global, agents_created, memory,
                       pre_reset, notAiVars>>

(* POST /api/ai/analyze with a valid body: the agent is fetched and called. *)
AnalyzeRacingQuestion ==
    \E req \in AnalyzeRequests, ok \in BOOLEAN :
        LET got == get_racing_agent(racing_agent_instance, agents_created)
        IN  /\ ValidateAnalyze(req, FALSE) = None
            /\ got.created <= MaxAgents
            /\ memory[Val(got.instance)] < MaxTurns
            /\ racing_agent_instance' = got.instance
            /\ agents_created' = got.created
            /\ memory' = CallAgent(memory, Val(got.instance), ok)
            /\ ai_request' = Some(req)
            /\ ai_response' = Some(IF ok
                                   THEN Success({"success", "response", "metadata",
                                                 "request_context"})
                                   ELSE AnalysisFailed)
            /\ UNCHANGED <<api_server_global, pre_reset, notAiVars>>

(* POST /api/ai/test-connection                                            *)
TestAiConnection ==
    \E ok \in BOOLEAN :
        LET got == get_racing_agent(racing_agent_instance, agents_created)
        IN  /\ got.created <= MaxAgents
            /\ memory[Val(got.instance)] < MaxTurns
            /\ racing_agent_instance' = got.instance
            /\ agents_created' = got.created
            /\ memory' = CallAgent(memory, Val(got.instance), ok)
            /\ ai_request' = Some([kind |-> "test-connection"])
            /\ ai_response' = Some(IF ok
                                   THEN Success({"success", "message", "agent_type",
                                                 "test_response"})
                                   ELSE Failure(500, {"success", "message", "error"}))
            /\ UNCHANGED <<api_server_global, pre_reset, notAiVars>>

(* POST /api/ai/reset-agent: "global racing_agent_instance" names the      *)
(* global of module api_server, which is set to None; get_racing_agent()   *)
(* then reads the global of module racing_agent.                           *)
ResetRacingAgent ==
    LET got == get_racing_agent(racing_agent_instance, agents_created)
    IN  /\ got.created <= MaxAgents
        /\ api_server_global' = "None"
        /\ racing_agent_instance' = got.instance
        /\ agents_created' = got.created
        /\ pre_reset' = racing_agent_instance
        /\ ai_request' = Some([kind |-> "reset-agent"])
        /\ ai_response' = Some(Success({"success", "message"}))
        /\ UNCHANGED <<memory, notAiVars>>

----------------------------------------------------------------------------
(* Claims about the AI endpoints.                                          *)

AiAnswered == ai_response # None
AiKind == Val(ai_request).kind

(* C9: for any POST /api/ai/analyze invocation the response body is a JSON *)
(* object with at least a boolean success key.                             *)
C9_AnalyzeAlwaysHasSuccess ==
    (AiAnswered /\ AiKind = "analyze") =>
        /\ "success" \in Val(ai_response).keys
        /\ Val(ai_response).success # None
        /\ Val(Val(ai_response).success) \in BOOLEAN

(* C10: after POST /api/ai/reset-agent completes, the next                 *)
(* get_racing_agent() call returns a new agent with empty conversational   *)
(* memory, not the instance that existed before the reset.                 *)
C10_ResetDropsAgent ==
    (AiAnswered /\ AiKind = "reset-agent" /\ Val(ai_response).success = Some(TRUE)) =>
        LET next == Val(get_racing_agent(racing_agent_instance, agents_created).instance)
        IN  /\ (pre_reset # None => next # Val(pre_reset))
            /\ memory[next] = 0

----------------------------------------------------------------------------
(* Missing data: load_telemetry_data and the handlers that call it first.  *)

(* The keys of TELEMETRY_FILES, and a race id that is not one of them.     *)
TELEMETRY_FILES == {"R1", "R2"}
RaceIds == TELEMETRY_FILES \cup {"R9"}

(* Vehicle ids: one with GPS rows, one without, one in no file.            *)
GpsVehicle == "GR86-002-1"
NoGpsVehicle == "GR86-003-3"
UnknownVehicle == "GR86-099-9"
VehicleIds == {GpsVehicle, NoGpsVehicle, UnknownVehicle}
FileVehicles == {GpsVehicle, NoGpsVehicle}

LoadEndpoints == {"timeline", "chunk", "position"}

(* load_telemetry_data: a race already loaded is served from the cache;    *)
(* otherwise TELEMETRY_FILES[race_id] raises KeyError for an unknown race  *)
(* and a missing file raises FileNotFoundError.  raised is None on         *)
(* success.                                                                *)
load_telemetry_data(race_id, files, cache) ==
    IF race_id \in cache THEN [raised |-> None, cache |-> cache]
    ELSE IF race_id \notin TELEMETRY_FILES
    THEN [raised |-> Some("KeyError"), cache |-> cache]
    ELSE IF race_id \notin files
    THEN [raised |-> Some("FileNotFoundError"), cache |-> cache]
    ELSE [raised |-> None, cache |-> cache \cup {race_id}]

JsonError(status, message) == [status |-> status, keys |-> {"error"}, message |-> message]
JsonOk(keys) == [status |-> 200, keys |-> keys, message |-> ""]

(* The handler after the load succeeded.                                   *)
AnswerLoaded(endpoint, vehicle_id) ==
    IF vehicle_id \notin FileVehicles THEN JsonError(404, "Vehicle not found")
    ELSE IF endpoint = "timeline"
    THEN IF vehicle_id = NoGpsVehicle THEN JsonError(404, "No GPS data found")
         ELSE JsonOk({"race_id", "vehicle_id", "timeline", "total_points",
                      "duration_seconds"})
    ELSE IF endpoint = "chunk"
    THEN JsonOk({"race_id", "vehicle_id", "start_time", "end_time", "chunk_size",
                 "data", "total_points", "augmented"})
    ELSE IF vehicle_id = NoGpsVehicle THEN JsonError(404, "No GPS data at timestamp")
         ELSE JsonOk({"timestamp", "lap", "latitude", "longitude"})

(* The outermost "except Exception as e" of every handler.                 *)
AnswerRaised(exception) == JsonError(500, exception)

LoadInit ==
    /\ telemetry_files \in SUBSET TELEMETRY_FILES
    /\ telemetry_cache = {}
    /\ load_request = None
    /\ load_response = None

(* GET /api/telemetry/{race}/{vehicle}/timeline, /chunk and                *)
(* /position?timestamp=t with t at a sample of the vehicle.                *)
GetTelemetry ==
    \E endpoint \in LoadEndpoints, race_id \in RaceIds, vehicle_id \in VehicleIds :
        LET loaded == load_telemetry_data(race_id, telemetry_files, telemetry_cache)
        IN  /\ load_request' = Some([endpoint |-> endpoint, race_id |-> race_id,
                                     vehicle_id |-> vehicle_id,
                                     on_disk |-> race_id \in telemetry_files,
                                     cached |-> race_id \in telemetry_cache])
            /\ telemetry_cache' = loaded.cache
            /\ load_response' = Some(IF loaded.raised # None
                                     THEN AnswerRaised(Val(loaded.raised))
                                     ELSE AnswerLoaded(endpoint, vehicle_id))
            /\ UNCHANGED <<telemetry_files, notLoadVars>>

(* A telemetry file is put on disk or removed from it between requests.    *)
FileChanges ==
    \E race_id \in TELEMETRY_FILES :
        /\ telemetry_files' = IF race_id \in telemetry_files
                              THEN telemetry_files \ {race_id}
                              ELSE telemetry_files \cup {race_id}
        /\ UNCHANGED <<telemetry_cache, load_request, load_response, notLoadVars>>

----------------------------------------------------------------------------
(* Claims about missing data.                                              *)

LoadAnswered == load_response # None

(* The request named a race, a file or a vehicle that is not present.      *)
NamedMissing ==
    LET r == Val(load_request)
    IN  \/ r.race_id \notin TELEMETRY_FILES
        \/ (~r.on_disk /\ ~r.cached)
        \/ r.vehicle_id \notin FileVehicles

(* C11: a request that names a race id, vehicle id or data file that is    *)
(* not present is answered with HTTP 404 and a JSON error message, never   *)
(* with 500.                                                               *)
C11_MissingIs404 ==
    (LoadAnswered /\ NamedMissing) =>
        /\ Val(load_response).status = 404
        /\ "error" \in Val(load_response).keys

----------------------------------------------------------------------------
(* The lap-time codec: format_lap_time_from_ms followed by parse_lap_time. *)

MaxCodecMs == 1100
(* The milliseconds the codec is run on: every value up to MaxCodecMs and  *)
(* the official lap times "1:34.004" and "1:39.387".                       *)
CodecInputs == 0..MaxCodecMs \cup {94004, 99387}

CodecInit ==
    /\ codec_ms \in CodecInputs
    /\ codec_text = None
    /\ codec_parsed = None

FormatLapTime ==
    /\ codec_text = None
    /\ codec_text' = Some(format_lap_time_from_ms(codec_ms))
    /\ UNCHANGED <<codec_ms, codec_parsed, notCodecVars>>

ParseLapTime ==
    /\ codec_text # None
    /\ codec_parsed = None
    /\ codec_parsed' = Some(parse_lap_time(Val(codec_text)))
    /\ UNCHANGED <<codec_ms, codec_text, notCodecVars>>

(* C12: for every integer n of milliseconds,                               *)
(* parse_lap_time(format_lap_time_from_ms(n)) = n, with format(99387) =    *)
(* "1:39.387" and parse("1:39.387") = 99387.                               *)
C12_CodecRoundTrip ==
    /\ (codec_parsed # None => Val(codec_parsed) = codec_ms)
    /\ (codec_text # None /\ codec_ms = 99387 => Val(codec_text) = LapTimeStr(1, 39, 387))

----------------------------------------------------------------------------
(* The augmentation engine (src/telemetry_augmentation.py).                *)

MaxStream == 4
StreamLaps == 18..20
LAP_DISTANCE_THRESHOLD == 100
FarFromLine == 3000
MaxRaceLaps == 20
StartMarkerDelay == 100

(* One timestamp group of the vehicle after the pivot: its lap column, its *)
(* Laptrigger_lapdist_dls value, whether its GPS point is within the       *)
(* tolerance of the start/finish line, and whether the three channels the  *)
(* detection needs are all there (a group that lacks one has a NaN).       *)
Sample(lap, lap_distance, near_sf) ==
    [lap |-> lap, lap_distance |-> lap_distance, near_sf |-> near_sf, complete |-> TRUE]
PartialSample == [lap |-> 19, lap_distance |-> 0, near_sf |-> FALSE, complete |-> FALSE]
Samples ==
    {Sample(lap, 3650, FALSE) : lap \in StreamLaps}       \* 60 m before the line
    \cup {Sample(lap, 20, TRUE) : lap \in {19, 20}}        \* 20 m past the line
    \cup {Sample(19, 1800, FALSE), Sample(19, 3700, TRUE)} \* mid-lap, 10 m before the line
    \cup {PartialSample}

(* The streams of a vehicle: the lap column never decreases.               *)
Streams ==
    {stream \in SeqUpTo(Samples, MaxStream) :
        \A i, j \in 1..Len(stream) :
            (i < j /\ stream[i].complete /\ stream[j].complete)
                => stream[i].lap <= stream[j].lap}

(* Timestamps in ms: sample i is at i * 1000; the official completion of   *)
(* lap n falls between two samples.                                        *)
SampleTime(i) == i * 1000
OfficialCompletion(lap) == (lap - 18) * 1000 + 1500
OfficialChoices == {{}, {19}, StreamLaps}

(* detect_start_finish_crossings: one iteration of the loop over the       *)
(* pivoted rows.                                                           *)
DetectStart ==
    [prev_near_sf |-> FALSE, prev_lap_distance |-> None, prev_lap |-> None,
     crossings |-> <<>>]

DetectStep(st, sample, timestamp) ==
    IF ~sample.complete THEN st
    ELSE LET gps_entry == sample.near_sf /\ ~st.prev_near_sf
             lap_distance_reset ==
                 /\ st.prev_lap_distance # None
                 /\ Val(st.prev_lap_distance) > FarFromLine
                 /\ sample.lap_distance < LAP_DISTANCE_THRESHOLD
             lap_change == st.prev_lap # None /\ sample.lap # Val(st.prev_lap)
             crossing_type == IF lap_change THEN "lap_change"
                              ELSE IF lap_distance_reset THEN "lap_distance_reset"
                              ELSE "gps_entry"
             crossing == [timestamp |-> timestamp, lap_number |-> sample.lap,
                          detection_method |-> crossing_type]
         IN  [prev_near_sf |-> sample.near_sf,
              prev_lap_distance |-> Some(sample.lap_distance),
              prev_lap |-> Some(sample.lap),
              crossings |-> IF gps_entry \/ lap_distance_reset \/ lap_change
                            THEN Append(st.crossings, crossing)
                            ELSE st.crossings]

RECURSIVE DetectLoop(_, _, _)
DetectLoop(st, stream, i) ==
    IF i > Len(stream) THEN st
    ELSE DetectLoop(DetectStep(st, stream[i], SampleTime(i)), stream, i + 1)

detect_start_finish_crossings(stream) == DetectLoop(DetectStart, stream, 1).crossings

(* align_crossings_with_official_times: the crossings whose lap number has *)
(* an official record, with that record's completion time.                 *)
RECURSIVE align_crossings_with_official_times(_, _)
align_crossings_with_official_times(detected_crossings, official) ==
    IF detected_crossings = <<>> THEN <<>>
    ELSE LET crossing == Head(detected_crossings)
             rest == align_crossings_with_official_times(Tail(detected_crossings), official)
         IN  IF crossing.lap_number \in official
             THEN <<[lap_number |-> crossing.lap_number,
                     detection_method |-> crossing.detection_method,
                     telemetry_timestamp |-> crossing.timestamp,
                     official_completion_time |-> OfficialCompletion(crossing.lap_number)]>>
                  \o rest
             ELSE rest

(* A timestamp as the records carry it: the instant and the form of the    *)
(* value.  Original rows hold a parsed Timestamp; a synthetic row holds    *)
(* the text isoformat() + 'Z', which ends in "+00:00Z".                    *)
ParsedTimestamp(ms) == [ms |-> ms, form |-> "Timestamp"]
IsoZText(ms) == [ms |-> ms, form |-> "isoformat+Z"]

(* safe_parse_timestamp: both forms parse to the instant.                  *)
safe_parse_timestamp(timestamp) == timestamp.ms

(* vehicle_data.to_dict('records'): one record per row of the vehicle.     *)
OriginalSource == "kafka:gr-raw"
OriginalRecord(stream, i) ==
    [meta_source |-> OriginalSource, telemetry_name |-> "telemetry",
     telemetry_value |-> "measured", lap |-> stream[i].lap,
     timestamp |-> ParsedTimestamp(SampleTime(i)), row |-> i]
OriginalRecords(stream) == [i \in 1..Len(stream) |-> OriginalRecord(stream, i)]

(* create_lap_marker_records: per aligned crossing the start marker of the *)
(* next lap (when the lap number is below 20) and then the completion      *)
(* marker.                                                                 *)
CompletionRecord(crossing) ==
    [meta_source |-> "augmentation:lap_marker", telemetry_name |-> "lap_completion_marker",
     telemetry_value |-> "lap_completed", lap |-> crossing.lap_number,
     timestamp |-> IsoZText(crossing.official_completion_time), row |-> 0]
StartRecord(crossing) ==
    [CompletionRecord(crossing) EXCEPT
        !.lap = crossing.lap_number + 1,
        !.telemetry_name = "lap_start_marker",
        !.telemetry_value = "lap_started",
        !.timestamp = IsoZText(crossing.official_completion_time + StartMarkerDelay)]

RECURSIVE create_lap_marker_records(_)
create_lap_marker_records(aligned_crossings) ==
    IF aligned_crossings = <<>> THEN <<>>
    ELSE LET crossing == Head(aligned_crossings)
         IN  (IF crossing.lap_number < MaxRaceLaps THEN <<StartRecord(crossing)>> ELSE <<>>)
             \o <<CompletionRecord(crossing)>>
             \o create_lap_marker_records(Tail(aligned_crossings))

(* A list that lost its first record.                                      *)
DropFirstRecord(records) == IF records = <<>> THEN <<>> ELSE Tail(records)

(* augmented_data.sort(key=safe_parse_timestamp): a stable sort.           *)
RECURSIVE InsertByTimestamp(_, _)
InsertByTimestamp(sorted, record) ==
    IF sorted = <<>> THEN <<record>>
    ELSE IF safe_parse_timestamp(Head(sorted).timestamp) <= safe_parse_timestamp(record.timestamp)
         THEN <<Head(sorted)>> \o InsertByTimestamp(Tail(sorted), record)
         ELSE <<record>> \o sorted
RECURSIVE SortByTimestamp(_)
SortByTimestamp(records) ==
    IF records = <<>> THEN <<>>
    ELSE InsertByTimestamp(SortByTimestamp(SubSeq(records, 1, Len(records) - 1)),
                           records[Len(records)])

(* augment_vehicle_data.  The three early returns give a dict without the  *)
(* keys detected_crossings, aligned_crossings and crossing_details: keys   *)
(* is the key set of the returned dict.                                    *)
ShortKeys == {"original_records", "synthetic_records", "augmented_data"}
FullKeys == ShortKeys \cup {"detected_crossings", "aligned_crossings", "crossing_details"}
ShortResult(records) ==
    [keys |-> ShortKeys, original_records |-> Len(records), synthetic_records |-> 0,
     detected_crossings |-> 0, aligned_crossings |-> 0,
     augmented_data |-> records, crossing_details |-> <<>>]

augment_vehicle_data(stream, official) ==
    IF stream = <<>> THEN ShortResult(<<>>)
    ELSE IF official = {} THEN ShortResult(OriginalRecords(stream))
    ELSE LET detected_crossings == detect_start_finish_crossings(stream)
             aligned_crossings ==
                 align_crossings_with_official_times(detected_crossings, official)
             synthetic_records == create_lap_marker_records(aligned_crossings)
             original_records == OriginalRecords(stream)
         IN  IF detected_crossings = <<>> THEN ShortResult(original_records)
             ELSE [keys |-> FullKeys,
                   original_records |-> Len(original_records),
                   synthetic_records |-> Len(synthetic_records),
                   detected_crossings |-> Len(detected_crossings),
                   aligned_crossings |-> Len(aligned_crossings),
                   augmented_data |-> SortByTimestamp(original_records \o synthetic_records),
                   crossing_details |-> aligned_crossings]

(* round(synthetic / (original + synthetic) * 100, 2), in hundredths of a  *)
(* percent.  No quotient of the record counts this model reaches lies      *)
(* half-way between two hundredths.                                        *)
AugmentationRatio(synthetic, total) == (2 * synthetic * 10000 + total) \div (2 * total)

(* get_augmented_telemetry_info: reading a key the result dict lacks       *)
(* raises KeyError, a zero total raises ZeroDivisionError; the except      *)
(* clause answers 500.                                                     *)
InfoKeys ==
    {"race_id", "vehicle_id", "augmentation_available", "original_records",
     "synthetic_records", "detected_crossings", "aligned_crossings", "crossing_details",
     "total_records", "augmentation_ratio"}
InfoFailed(message) ==
    [status |-> 500, keys |-> {"race_id", "vehicle_id", "error", "augmentation_available"},
     error |-> message, original_records |-> 0, synthetic_records |-> 0,
     detected_crossings |-> 0, aligned_crossings |-> 0, augmentation_ratio |-> 0]
get_augmented_telemetry_info(augmented_result) ==
    IF "detected_crossings" \notin augmented_result.keys
    THEN InfoFailed("'detected_crossings'")
    ELSE IF augmented_result.original_records + augmented_result.synthetic_records = 0
    THEN InfoFailed("division by zero")
    ELSE [status |-> 200, keys |-> InfoKeys, error |-> "",
          original_records |-> augmented_result.original_records,
          synthetic_records |-> augmented_result.synthetic_records,
          detected_crossings |-> augmented_result.detected_crossings,
          aligned_crossings |-> augmented_result.aligned_crossings,
          augmentation_ratio |->
              AugmentationRatio(augmented_result.synthetic_records,
                                augmented_result.original_records
                                + augmented_result.synthetic_records)]

AugInit ==
    /\ aug_stream \in Streams
    /\ aug_official \in OfficialChoices
    /\ aug_result = None
    /\ aug_response = None

(* TelemetryAugmenter.augment_vehicle_data(race_id, vehicle_id)            *)
AugmentVehicleData ==
    /\ aug_result = None
    /\ aug_result' = Some(augment_vehicle_data(aug_stream, aug_official))
    /\ UNCHANGED <<aug_stream, aug_official, aug_response, notAugVars>>

(* GET /api/telemetry/{race}/{vehicle}/augmented                           *)
GetAugmentedTelemetryInfo ==
    /\ aug_response = None
    /\ aug_response' =
           Some(get_augmented_telemetry_info(augment_vehicle_data(aug_stream, aug_official)))
    /\ UNCHANGED <<aug_stream, aug_official, aug_result, notAugVars>>

----------------------------------------------------------------------------
(* Claims about the augmentation engine.                                   *)

AugRan == aug_result # None
AugData == Val(aug_result).augmented_data

(* Lap n is entered by a lap-distance reset (3650 m to 20 m) with the lap  *)
(* number incrementing to n.                                               *)
EnteredByReset(n) ==
    \E i \in 2..Len(aug_stream) :
        /\ aug_stream[i - 1] = Sample(n - 1, 3650, FALSE)
        /\ aug_stream[i] = Sample(n, 20, TRUE)

(* The number of records of a list that satisfy Test.                      *)
CountRecords(records, Test(_)) == Len(SelectSeq(records, Test))

(* C14: when lap N is entered by a lap-distance reset with the lap number  *)
(* incrementing to N and lap N has an official completion record, the      *)
(* engine reports a crossing for lap N tagged lap_distance_reset or        *)
(* lap_change, and the augmented data holds exactly one                    *)
(* lap_completion_marker row for lap N at the official completion          *)
(* timestamp and, unless N >= 20, exactly one lap_start_marker row for lap *)
(* N+1 100 ms later.                                                       *)
C14_OneMarkerPairPerLap ==
    AugRan =>
        \A n \in StreamLaps :
            (EnteredByReset(n) /\ n \in aug_official) =>
                /\ \E k \in 1..Len(Val(aug_result).crossing_details) :
                      /\ Val(aug_result).crossing_details[k].lap_number = n
                      /\ Val(aug_result).crossing_details[k].detection_method
                             \in {"lap_distance_reset", "lap_change"}
                /\ CountRecords(AugData,
                       LAMBDA r : /\ r.telemetry_name = "lap_completion_marker"
                                  /\ r.lap = n
                                  /\ r.timestamp.ms = OfficialCompletion(n)) = 1
                /\ CountRecords(AugData,
                       LAMBDA r : /\ r.telemetry_name = "lap_start_marker"
                                  /\ r.lap = n + 1
                                  /\ r.timestamp.ms = OfficialCompletion(n) + 100)
                   = (IF n >= 20 THEN 0 ELSE 1)

(* C15: augmentation never alters original telemetry: every original row   *)
(* is in augmented_data unchanged and in its order, original_records is    *)
(* the vehicle's row count, len(augmented_data) = original_records +       *)
(* synthetic_records, and every added row carries meta_source              *)
(* 'augmentation:lap_marker' and a marker telemetry_name.                  *)
C15_OriginalsUntouched ==
    AugRan =>
        /\ SelectSeq(AugData, LAMBDA r : r.meta_source = OriginalSource)
               = OriginalRecords(aug_stream)
        /\ Val(aug_result).original_records = Len(aug_stream)
        /\ Len(AugData) = Val(aug_result).original_records + Val(aug_result).synthetic_records
        /\ \A k \in 1..Len(AugData) :
              AugData[k].meta_source # OriginalSource =>
                  /\ AugData[k].meta_source = "augmentation:lap_marker"
                  /\ AugData[k].telemetry_name \in {"lap_completion_marker", "lap_start_marker"}

(* An augmentation that put a marker pair between two original rows.       *)
C15_Witness ==
    /\ AugRan
    /\ Val(aug_result).synthetic_records >= 2
    /\ \E k \in 2..(Len(AugData) - 1) :
          /\ AugData[k].meta_source = "augmentation:lap_marker"
          /\ AugData[k - 1].meta_source = OriginalSource
          /\ AugData[Len(AugData)].meta_source = OriginalSource

AugAnswered == aug_response # None

(* The vehicle has no GPS channels, no official lap times or no crossings. *)
NothingToAugment ==
    \/ \A i \in 1..Len(aug_stream) : ~aug_stream[i].complete
    \/ aug_official = {}
    \/ detect_start_finish_crossings(aug_stream) = <<>>

(* C16: for a vehicle with no GPS channels, no official lap times or no    *)
(* crossings the engine returns zero synthetic records, and the /augmented *)
(* endpoint answers with the record counts, the crossing counts, the       *)
(* crossing detail list and the ratio synthetic / (original + synthetic)   *)
(* x 100.                                                                  *)
C16_GracefulDiagnostics ==
    (AugAnswered /\ NothingToAugment) =>
        /\ augment_vehicle_data(aug_stream, aug_official).synthetic_records = 0
        /\ Val(aug_response).status = 200
        /\ {"original_records", "synthetic_records", "detected_crossings",
            "aligned_crossings", "crossing_details", "augmentation_ratio"}
               \subseteq Val(aug_response).keys
        /\ Val(aug_response).synthetic_records = 0
        /\ Val(aug_response).augmentation_ratio = 0

----------------------------------------------------------------------------
(* detect_stints (toyota_gr_cup_analytics/models/feature_engineering.py).  *)

MaxStintLaps == 4
GenericPitThreshold == 30
CotaPitThreshold == 200

(* Lap times in seconds; NaN is what _convert_laptime_to_seconds gives for *)
(* a text it cannot read.                                                  *)
NaN == None
LapSeconds == {NaN, Some(30), Some(90), Some(91), Some(200), Some(250)}
Tracks == {None, Some("cota"), Some("COTA"), Some("barber")}

(* str.lower() on the track names of this model.                           *)
Lower(track) == IF track = "COTA" THEN "cota" ELSE track

(* The rows of one car: laps 1..n with their times, in ascending or        *)
(* descending file order.                                                  *)
StintRowsOf(times, descending) ==
    [i \in 1..Len(times) |->
        LET lap == IF descending THEN Len(times) + 1 - i ELSE i
        IN  [LAP_NUMBER |-> lap, lap_time_seconds |-> times[lap]]]
StintInputs ==
    {StintRowsOf(times, descending) :
        times \in SeqUpTo(LapSeconds, MaxStintLaps), descending \in BOOLEAN}

(* car_data.sort_values('LAP_NUMBER')                                      *)
RECURSIVE InsertByLapNumber(_, _)
InsertByLapNumber(sorted, row) ==
    IF sorted = <<>> THEN <<row>>
    ELSE IF Head(sorted).LAP_NUMBER <= row.LAP_NUMBER
         THEN <<Head(sorted)>> \o InsertByLapNumber(Tail(sorted), row)
         ELSE <<row>> \o sorted
RECURSIVE SortByLapNumber(_)
SortByLapNumber(rows) ==
    IF rows = <<>> THEN <<>>
    ELSE InsertByLapNumber(SortByLapNumber(SubSeq(rows, 1, Len(rows) - 1)), rows[Len(rows)])

(* The threshold detect_stints uses: 200.0 when track.lower() == 'cota',   *)
(* else the default of the pit_time_threshold parameter.                   *)
DefaultPitThreshold(track) == GenericPitThreshold
CotaThresholdAlways(track) == CotaPitThreshold
pit_time_threshold(track) ==
    IF track # None /\ Lower(Val(track)) = "cota" THEN CotaPitThreshold
    ELSE GenericPitThreshold

(* lap_time > pit_time_threshold: a comparison with NaN is false.          *)
IsPitLap(lap_time, threshold) == lap_time # NaN /\ Val(lap_time) > threshold

(* The loop over the car's rows: the state is (stint_number, tire_age)     *)
(* before the row, the output is what is appended for the row.             *)
RECURSIVE StintLoop(_, _, _, _)
StintLoop(rows, stint_number, tire_age, threshold) ==
    IF rows = <<>> THEN <<>>
    ELSE LET pit == IsPitLap(Head(rows).lap_time_seconds, threshold)
             stint == IF pit THEN stint_number + 1 ELSE stint_number
             age == IF pit THEN 1 ELSE tire_age
         IN  <<[stint_number |-> stint, tire_age |-> age]>>
             \o StintLoop(Tail(rows), stint, age + 1, threshold)

detect_stints(rows, track) ==
    StintLoop(SortByLapNumber(rows), 1, 1, pit_time_threshold(track))

(* calculate_degradation_rate.  A rate is the literal 0.0 of a stint that  *)
(* is too short, NaN when a lap time of the stint is NaN, or the slope of  *)
(* the least-squares line through (tire_age, lap_time_seconds), kept as    *)
(* the fraction num / den.                                                 *)
ShortStintLaps == 2
LongStintLaps == 3
min_stint_laps(track) ==
    IF track # None /\ Lower(Val(track)) = "cota" THEN ShortStintLaps ELSE LongStintLaps

ZeroRate == [kind |-> "zero", num |-> 0, den |-> 1]
NaNRate == [kind |-> "nan", num |-> 0, den |-> 1]
(* np.polyfit(tire_ages, lap_times, 1)[0]                                  *)
PolyfitSlope(tire_ages, lap_times) ==
    IF \E i \in 1..Len(lap_times) : lap_times[i] = NaN THEN NaNRate
    ELSE LET n == Len(tire_ages)
             y == [i \in 1..n |-> Val(lap_times[i])]
             sum_x == SumSeq(tire_ages)
             sum_y == SumSeq(y)
             sum_xy == SumSeq([i \in 1..n |-> tire_ages[i] * y[i]])
             sum_xx == SumSeq([i \in 1..n |-> tire_ages[i] * tire_ages[i]])
         IN  [kind |-> "slope", num |-> n * sum_xy - sum_x * sum_y,
              den |-> n * sum_xx - sum_x * sum_x]

(* The rows of one stint, as positions in lap-number order.                *)
StintLaps(info, stint) == SelectSeq([i \in 1..Len(info) |-> i],
                                    LAMBDA i : info[i].stint_number = stint)

StintRate(rows, info, stint, track) ==
    LET laps == StintLaps(info, stint)
    IN  IF Len(laps) < min_stint_laps(track) THEN ZeroRate
        ELSE IF Len(laps) > 1
        THEN PolyfitSlope([j \in 1..Len(laps) |-> info[laps[j]].tire_age],
                          [j \in 1..Len(laps) |-> rows[laps[j]].lap_time_seconds])
        ELSE ZeroRate

calculate_degradation_rate(rows, info, track) ==
    [i \in 1..Len(info) |-> StintRate(SortByLapNumber(rows), info, info[i].stint_number, track)]

StintInit ==
    /\ stint_rows \in StintInputs
    /\ stint_track \in Tracks
    /\ stint_info = None
    /\ degradation_rates = None

DetectStints ==
    /\ stint_info = None
    /\ stint_info' = Some(detect_stints(stint_rows, stint_track))
    /\ UNCHANGED <<stint_rows, stint_track, degradation_rates, notStintVars>>

(* calculate_degradation_rate runs detect_stints itself when the table has *)
(* no stint_number column yet.                                             *)
CalculateDegradationRate ==
    /\ degradation_rates = None
    /\ LET info == IF stint_info = None THEN detect_stints(stint_rows, stint_track)
                   ELSE Val(stint_info)
       IN  /\ stint_info' = Some(info)
           /\ degradation_rates' = Some(calculate_degradation_rate(stint_rows, info, stint_track))
    /\ UNCHANGED <<stint_rows, stint_track, notStintVars>>

----------------------------------------------------------------------------
(* Claims about detect_stints.                                             *)

StintsDone == stint_info # None
(* The time of lap k of the car.                                           *)
StintLapTime(k) ==
    (CHOOSE r \in {stint_rows[i] : i \in 1..Len(stint_rows)} : r.LAP_NUMBER = k)
        .lap_time_seconds
(* The threshold the claim names: 200 s for 'cota', 30 s otherwise.        *)
NamedThreshold == IF stint_track \in {Some("cota"), Some("COTA")} THEN 200 ELSE 30
ExceedsThreshold(k) == StintLapTime(k) # NaN /\ Val(StintLapTime(k)) > NamedThreshold
ExampleLaps == <<Some(90), Some(91), Some(250), Some(90)>>

(* C17 as stated: a lap whose time exceeds the pit threshold triggers a    *)
(* new stint with tyre age reset to 1 on the next lap, and tire_age        *)
(* increments by 1 per lap within a stint.                                 *)
C17_TyreAgeResetOnNextLap ==
    StintsDone =>
        \A k \in 1..Len(stint_rows) :
            /\ (k < Len(stint_rows) /\ ExceedsThreshold(k)) =>
                   Val(stint_info)[k + 1].tire_age = 1
            /\ (k > 1 /\ Val(stint_info)[k].stint_number = Val(stint_info)[k - 1].stint_number)
                   => Val(stint_info)[k].tire_age = Val(stint_info)[k - 1].tire_age + 1

(* C17 amended: a lap whose time exceeds the pit threshold is itself the   *)
(* first lap of a new stint, with tire_age 1; every other lap stays in the *)
(* stint of the lap before it with tire_age one higher (the first lap      *)
(* starts stint 1 at tire_age 1); for lap times [90, 91, 250, 90] the      *)
(* 250 s lap starts a new stint for 'cota' and for any other track.        *)
C17_TyreAgeResetOnPitLap ==
    StintsDone =>
        /\ Len(Val(stint_info)) = Len(stint_rows)
        /\ \A k \in 1..Len(stint_rows) :
              LET before == IF k = 1 THEN [stint_number |-> 1, tire_age |-> 0]
                            ELSE Val(stint_info)[k - 1]
              IN  IF ExceedsThreshold(k)
                  THEN /\ Val(stint_info)[k].stint_number = before.stint_number + 1
                       /\ Val(stint_info)[k].tire_age = 1
                  ELSE /\ Val(stint_info)[k].stint_number = before.stint_number
                       /\ Val(stint_info)[k].tire_age = before.tire_age + 1
        /\ (\A k \in 1..4 : Len(stint_rows) = 4 /\ StintLapTime(k) = ExampleLaps[k]) =>
               Val(stint_info)[3].stint_number = Val(stint_info)[2].stint_number + 1

(* The lap times [90, 91, 250, 90] at 'cota': stint 1 with tyre ages 1, 2, *)
(* then the 250 s lap opens stint 2 at tyre age 1 and the next lap is 2.   *)
C17_Witness ==
    /\ StintsDone
    /\ stint_track = Some("cota")
    /\ Len(stint_rows) = 4
    /\ \A k \in 1..4 : StintLapTime(k) = ExampleLaps[k]
    /\ Val(stint_info) = <<[stint_number |-> 1, tire_age |-> 1],
                           [stint_number |-> 1, tire_age |-> 2],
                           [stint_number |-> 2, tire_age |-> 1],
                           [stint_number |-> 2, tire_age |-> 2]>>

(* C28: with the generic pit threshold (30 s, any track other than         *)
(* 'cota'), for a car whose n laps all exceed 30 s the k-th lap in         *)
(* lap-number order has stint_number k + 1 and tire_age 1, so every stint  *)
(* has exactly one lap and calculate_degradation_rate gives every row the  *)
(* degradation_rate 0.                                                     *)
C28_EveryLapItsOwnStint ==
    (degradation_rates # None
     /\ stint_track \notin {Some("cota"), Some("COTA")}
     /\ \A k \in 1..Len(stint_rows) : StintLapTime(k) # NaN /\ Val(StintLapTime(k)) > 30) =>
        \A k \in 1..Len(stint_rows) :
            /\ Val(stint_info)[k].stint_number = k + 1
            /\ Val(stint_info)[k].tire_age = 1
            /\ Len(StintLaps(Val(stint_info), k + 1)) = 1
            /\ Val(degradation_rates)[k] = ZeroRate

(* Three ordinary racing laps at Barber, each its own stint.               *)
C28_Witness ==
    /\ degradation_rates # None
    /\ stint_track = Some("barber")
    /\ Len(stint_rows) = 3
    /\ \A k \in 1..3 : StintLapTime(k) = <<Some(90), Some(91), Some(90)>>[k]
    /\ Val(stint_info) = [k \in 1..3 |-> [stint_number |-> k + 1, tire_age |-> 1]]
    /\ Val(degradation_rates) = [k \in 1..3 |-> ZeroRate]

----------------------------------------------------------------------------
(* RaceStrategyModel (toyota_gr_cup_analytics/models/strategy.py).         *)

MaxDecisions == 3

(* The arguments of make_strategy_decision.  A key may be missing (None).  *)
(* degradation_factor is in hundredths, rain_probability in tenths.        *)
TireAges == {None, Some(15), Some(16), Some(20), Some(21)}
DegradationFactors == {None, Some(105), Some(106)}
RainProbabilities == {None, Some(7), Some(8)}
CurrentLaps == {None, Some(12)}
StrategyCalls ==
    [current_lap : CurrentLaps, laps_on_current_tires : TireAges,
     degradation_factor : DegradationFactors, rain_probability : RainProbabilities]

(* dict.get(key, default)                                                  *)
GetOr(value, default) == IF value = None THEN default ELSE Val(value)

(* tire_age > 20 and degradation > 1.05                                    *)
PitNowFromTwenty(tire_age, degradation) == tire_age >= 20 /\ degradation > 105
PitNowRule(tire_age, degradation) == tire_age > 20 /\ degradation > 105
(* tire_age > 15 and rain_probability > 0.7                                *)
WaitForCautionRule(tire_age, rain_probability) == tire_age > 15 /\ rain_probability > 7

(* _predict_decision_outcome; lap_time_improvement in tenths of a second.  *)
predict_decision_outcome(decision) ==
    IF decision = "pit_now"
    THEN [position_change |-> 2, lap_time_improvement |-> -15, risk_level |-> "medium"]
    ELSE IF decision = "stay_out"
    THEN [position_change |-> 0, lap_time_improvement |-> 0, risk_level |-> "low"]
    ELSE [position_change |-> 0, lap_time_improvement |-> 0, risk_level |-> "medium"]

(* The decision_data of make_strategy_decision; confidence in hundredths.  *)
make_strategy_decision(call) ==
    LET current_lap == GetOr(call.current_lap, 1)
        tire_age == GetOr(call.laps_on_current_tires, 0)
        degradation == GetOr(call.degradation_factor, 100)
        rain_probability == GetOr(call.rain_probability, 0)
        decision == IF PitNowRule(tire_age, degradation) THEN "pit_now"
                    ELSE IF WaitForCautionRule(tire_age, rain_probability)
                    THEN "wait_for_caution"
                    ELSE "stay_out"
        confidence == IF decision = "pit_now" THEN 80
                      ELSE IF decision = "wait_for_caution" THEN 60
                      ELSE 70
    IN  [lap |-> current_lap, decision |-> decision, confidence |-> confidence,
         expected_outcome |-> predict_decision_outcome(decision)]

(* self.decision_history.append(decision_data)                             *)
ReplaceLatest(history, decision_data) ==
    IF history = <<>> THEN <<decision_data>>
    ELSE [history EXCEPT ![Len(history)] = decision_data]
RecordDecision(history, decision_data) == Append(history, decision_data)

DecisionNames == {"stay_out", "pit_now", "pit_next_lap", "wait_for_caution"}

(* get_decision_summary.  decision_types holds a key per decision that     *)
(* occurs; average_confidence is kept as the sum and the count it divides. *)
CountDecisions(history, name) == Len(SelectSeq(history, LAMBDA d : d.decision = name))
get_decision_summary(history) ==
    IF history = <<>>
    THEN [keys |-> {"total_decisions", "decision_types"}, total_decisions |-> 0,
          decision_types |-> <<>>, confidence_sum |-> 0, latest_decision |-> None]
    ELSE [keys |-> {"total_decisions", "decision_types", "average_confidence",
                    "latest_decision"},
          total_decisions |-> Len(history),
          decision_types |->
              [name \in {history[i].decision : i \in 1..Len(history)} |->
                  CountDecisions(history, name)],
          confidence_sum |-> SumSeq([i \in 1..Len(history) |-> history[i].confidence]),
          latest_decision |-> Some(history[Len(history)])]

StrategyInit ==
    /\ decision_history = <<>>
    /\ history_before = <<>>
    /\ strategy_calls = 0
    /\ strategy_call = None
    /\ strategy_returned = None
    /\ decision_summary = None

MakeStrategyDecision ==
    \E call \in StrategyCalls :
        /\ strategy_calls < MaxDecisions
        /\ history_before' = decision_history
        /\ decision_history' = RecordDecision(decision_history, make_strategy_decision(call))
        /\ strategy_calls' = strategy_calls + 1
        /\ strategy_call' = Some(call)
        /\ strategy_returned' = Some(make_strategy_decision(call))
        /\ UNCHANGED <<decision_summary, notStrategyVars>>

GetDecisionSummary ==
    /\ decision_summary' = Some(get_decision_summary(decision_history))
    /\ UNCHANGED <<decision_history, history_before, strategy_calls, strategy_call,
                   strategy_returned, notStrategyVars>>

----------------------------------------------------------------------------
(* Claims about RaceStrategyModel.                                         *)

StrategyDecided == strategy_returned # None
GivenTireAge == GetOr(Val(strategy_call).laps_on_current_tires, 0)
GivenDegradation == GetOr(Val(strategy_call).degradation_factor, 100)
GivenRain == GetOr(Val(strategy_call).rain_probability, 0)

(* C18: make_strategy_decision returns pit_now exactly when tyre age > 20  *)
(* and degradation factor > 1.05; otherwise wait_for_caution exactly when  *)
(* tyre age > 15 and rain probability > 0.7; otherwise stay_out; with      *)
(* confidence 0.8 / 0.6 / 0.7 and risk level medium / medium / low.        *)
C18_ThresholdRules ==
    StrategyDecided =>
        LET d == Val(strategy_returned)
            pit == GivenTireAge > 20 /\ GivenDegradation > 105
            wait == ~pit /\ GivenTireAge > 15 /\ GivenRain > 7
        IN  /\ (d.decision = "pit_now") <=> pit
            /\ (d.decision = "wait_for_caution") <=> wait
            /\ (d.decision = "stay_out") <=> (~pit /\ ~wait)
            /\ d.decision = "pit_now" =>
                   d.confidence = 80 /\ d.expected_outcome.risk_level = "medium"
            /\ d.decision = "wait_for_caution" =>
                   d.confidence = 60 /\ d.expected_outcome.risk_level = "medium"
            /\ d.decision = "stay_out" =>
                   d.confidence = 70 /\ d.expected_outcome.risk_level = "low"

(* A call where both rules apply and pit_now wins.                         *)
C18_Witness ==
    /\ StrategyDecided
    /\ GivenTireAge = 21 /\ GivenDegradation = 106 /\ GivenRain = 8
    /\ Val(strategy_returned).decision = "pit_now"

(* C19: the decision history is append-only: after n calls it holds n      *)
(* entries in call order with the earlier ones unchanged, and              *)
(* get_decision_summary reports total_decisions = n, per-type counts that  *)
(* sum to n and latest_decision equal to the result of the most recent     *)
(* call (total_decisions = 0 with empty counts when n = 0).                *)
C19_AppendOnlyHistory ==
    /\ Len(decision_history) = strategy_calls
    /\ StrategyDecided =>
           /\ SubSeq(decision_history, 1, Len(decision_history) - 1) = history_before
           /\ decision_history[Len(decision_history)] = Val(strategy_returned)
    /\ LET summary == get_decision_summary(decision_history)
       IN  /\ summary.total_decisions = strategy_calls
           /\ SumSeq([i \in 1..4 |->
                  LET name == <<"stay_out", "pit_now", "pit_next_lap", "wait_for_caution">>[i]
                  IN  IF name \in DOMAIN summary.decision_types
                      THEN summary.decision_types[name] ELSE 0]) = strategy_calls
           /\ \A name \in DOMAIN summary.decision_types : name \in DecisionNames
           /\ strategy_calls = 0 => summary.decision_types = <<>>
           /\ strategy_calls > 0 => summary.latest_decision = strategy_returned
    /\ decision_summary # None /\ Val(decision_summary).total_decisions # strategy_calls
           => Val(decision_summary).total_decisions < strategy_calls

(* Three calls with different decisions, summarised.                       *)
C19_Witness ==
    /\ strategy_calls = 3
    /\ decision_summary = Some(get_decision_summary(decision_history))
    /\ {decision_history[i].decision : i \in 1..3}
           = {"pit_now", "wait_for_caution", "stay_out"}

----------------------------------------------------------------------------
(* Model persistence (toyota_gr_cup_analytics/models/model_persistence.py). *)

MaxSaves == 3

(* A name is the sequence of its parts; '.pkl' is a part of its own, so    *)
(* that str.endswith('.pkl') is a test of the last part.                   *)
Pkl == ".pkl"
ModelNames == {<<"lap_time">>, <<"lap_time", Pkl>>, <<"tyres">>}
Models == {"predictor_1", "predictor_2"}
Bundles == {"bundle_1"}

EndsWithPkl(model_name) == model_name # <<>> /\ model_name[Len(model_name)] = Pkl
AppendPkl(model_name) == Append(model_name, Pkl)
(* if not model_name.endswith('.pkl'): model_name = f"{model_name}.pkl"    *)
EnsurePkl(model_name) == IF EndsWithPkl(model_name) THEN model_name ELSE Append(model_name, Pkl)

(* joblib.dump(value, path) and joblib.load(path): the file holds the      *)
(* serialized value and loading gives the value back.                      *)
JoblibDump(files, path, value) ==
    [p \in DOMAIN files \cup {path} |-> IF p = path THEN [pickled |-> value] ELSE files[p]]
JoblibLoad(files, path) == files[path].pickled

(* save_model and save_model_bundle: the files after the call.             *)
save_model(model, model_name, files) == JoblibDump(files, EnsurePkl(model_name), model)
save_model_bundle(models, bundle_name, files) ==
    JoblibDump(files, EnsurePkl(bundle_name), models)

Loaded(value) == [ok |-> TRUE, value |-> Some(value), error |-> "", paths |-> {}]
Raised(error) == [ok |-> FALSE, value |-> None, error |-> error, paths |-> {}]
Listed(paths) == [ok |-> TRUE, value |-> None, error |-> "", paths |-> paths]

(* load_model and load_model_bundle.                                       *)
load_model(model_name, files) ==
    IF EnsurePkl(model_name) \notin DOMAIN files
    THEN Raised("FileNotFoundError")
    ELSE Loaded(JoblibLoad(files, EnsurePkl(model_name)))
load_model_bundle(bundle_name, files) ==
    IF EnsurePkl(bundle_name) \notin DOMAIN files
    THEN Raised("FileNotFoundError")
    ELSE Loaded(JoblibLoad(files, EnsurePkl(bundle_name)))

(* list_saved_models: models_dir.glob("*.pkl"), [] without the directory.  *)
list_saved_models(exists, files) ==
    IF ~exists THEN Listed({})
    ELSE Listed({p \in DOMAIN files : EndsWithPkl(p)})

PersistInit ==
    /\ models_dir_exists = FALSE
    /\ models_dir = <<>>
    /\ save_log = <<>>
    /\ persist_call = None
    /\ persist_result = None
    /\ models_dir_before = <<>>
    /\ saves_before = 0

SaveModel ==
    \E model \in Models, model_name \in ModelNames :
        /\ Len(save_log) < MaxSaves
        /\ models_dir_exists' = TRUE
        /\ models_dir' = save_model(model, model_name, models_dir)
        /\ save_log' = Append(save_log, [name |-> model_name, value |-> model])
        /\ UNCHANGED <<persist_call, persist_result, models_dir_before, saves_before,
                       notPersistVars>>

SaveModelBundle ==
    \E models \in Bundles, bundle_name \in ModelNames :
        /\ Len(save_log) < MaxSaves
        /\ models_dir_exists' = TRUE
        /\ models_dir' = save_model_bundle(models, bundle_name, models_dir)
        /\ save_log' = Append(save_log, [name |-> bundle_name, value |-> models])
        /\ UNCHANGED <<persist_call, persist_result, models_dir_before, saves_before,
                       notPersistVars>>

LoadModel ==
    \E model_name \in ModelNames :
        /\ persist_call' = Some([op |-> "load_model", name |-> model_name])
        /\ persist_result' = Some(load_model(model_name, models_dir))
        /\ models_dir_before' = models_dir
    /\ saves_before' = Len(save_log)
        /\ saves_before' = Len(save_log)
        /\ UNCHANGED <<models_dir_exists, models_dir, save_log, notPersistVars>>

LoadModelBundle ==
    \E bundle_name \in ModelNames :
        /\ persist_call' = Some([op |-> "load_model_bundle", name |-> bundle_name])
        /\ persist_result' = Some(load_model_bundle(bundle_name, models_dir))
        /\ models_dir_before' = models_dir
    /\ saves_before' = Len(save_log)
        /\ saves_before' = Len(save_log)
        /\ UNCHANGED <<models_dir_exists, models_dir, save_log, notPersistVars>>

ListSavedModels ==
    /\ persist_call' = Some([op |-> "list_saved_models", name |-> <<>>])
    /\ persist_result' = Some(list_saved_models(models_dir_exists, models_dir))
    /\ models_dir_before' = models_dir
    /\ saves_before' = Len(save_log)
    /\ UNCHANGED <<models_dir_exists, models_dir, save_log, notPersistVars>>

----------------------------------------------------------------------------
(* Claims about model persistence.                                         *)

(* The name without a trailing '.pkl': two names denote the same artifact  *)
(* when these agree.                                                       *)
Stem(name) == IF EndsWithPkl(name) THEN SubSeq(name, 1, Len(name) - 1) ELSE name
SameArtifact(a, b) == Stem(a) = Stem(b)
SavesOf(name) == {i \in 1..Len(save_log) : SameArtifact(save_log[i].name, name)}
LastSaveOf(name) == save_log[CHOOSE i \in SavesOf(name) : \A j \in SavesOf(name) : j <= i]
IsLoad == persist_call # None /\ Val(persist_call).op \in {"load_model", "load_model_bundle"}
IsList == persist_call # None /\ Val(persist_call).op = "list_saved_models"
(* No save came after the last load or list call.                          *)
NoSaveSince == saves_before = Len(save_log)

----------------------------------------------------------------------------
(* The analytics package's loaders                                         *)
(* (toyota_gr_cup_analytics/data_processing/loaders.py).                   *)

LoaderTracks == {"barber", "Barber", "cota", "sebring", "vir", "road-america",
                 "indianapolis", "monza"}
LoaderRaces == {1, 2}
(* data_root: None or a custom root.                                       *)
DataRoots == {None, Some("./test_data")}
(* What a candidate file is on disk: missing, a readable CSV, or a file    *)
(* that pd.read_csv or the cleansing that follows raises on.               *)
FileStates == {"missing", "readable", "unreadable"}

(* track.lower()                                                           *)
track_lower(track) == IF track = "Barber" THEN "barber" ELSE Lower(track)

(* The tracks with a file-path template: the if/elif chain of load_lap_data *)
(* and of load_weather_data.                                               *)
KnownLoaderTracks ==
    {"barber", "cota", "sebring", "sonoma", "vir", "road_america", "road-america",
     "indianapolis"}

EmptyTable == [rows |-> "none", source |-> "pd.DataFrame()"]
LoadedTable(source) == [rows |-> "file", source |-> source]
Returned(table) == [raised |-> "", table |-> Some(table)]
LoaderRaised(error) == [raised |-> error, table |-> None]

(* The loop over analysis_files + timing_files: the first file that exists *)
(* and loads is returned, a file that raises is logged and skipped.        *)
loaders_load_lap_data(track, race, data_root, analysis_file, timing_file) ==
    IF track_lower(track) \notin KnownLoaderTracks THEN LoaderRaised("ValueError")
    ELSE IF analysis_file = "readable" THEN Returned(LoadedTable("analysis"))
    ELSE IF timing_file = "readable" THEN Returned(LoadedTable("timing"))
    ELSE Returned(EmptyTable)

loaders_load_weather_data(track, race, data_root, weather_file) ==
    IF track_lower(track) \notin KnownLoaderTracks THEN LoaderRaised("ValueError")
    ELSE IF weather_file = "missing" THEN Returned(EmptyTable)
    ELSE IF weather_file = "readable" THEN Returned(LoadedTable("weather"))
    ELSE Returned(EmptyTable)

(* Placeholder implementation.                                             *)
loaders_load_telemetry_data(track, race, data_root) == Returned(EmptyTable)

LoadersInit ==
    /\ loader_call = None
    /\ loader_result = None

LoadLapData ==
    \E track \in LoaderTracks, race \in LoaderRaces, data_root \in DataRoots,
       analysis_file \in FileStates, timing_file \in FileStates :
        /\ loader_call' = Some([loader |-> "load_lap_data", track |-> track, race |-> race,
                                data_root |-> data_root,
                                files |-> <<analysis_file, timing_file>>])
        /\ loader_result' =
               Some(loaders_load_lap_data(track, race, data_root, analysis_file, timing_file))
        /\ UNCHANGED notLoadersVars

LoadWeatherData ==
    \E track \in LoaderTracks, race \in LoaderRaces, data_root \in DataRoots,
       weather_file \in FileStates :
        /\ loader_call' = Some([loader |-> "load_weather_data", track |-> track,
                                race |-> race, data_root |-> data_root,
                                files |-> <<weather_file>>])
        /\ loader_result' = Some(loaders_load_weather_data(track, race, data_root, weather_file))
        /\ UNCHANGED notLoadersVars

LoadTelemetryData ==
    \E track \in LoaderTracks, race \in LoaderRaces, data_root \in DataRoots :
        /\ loader_call' = Some([loader |-> "load_telemetry_data", track |-> track,
                                race |-> race, data_root |-> data_root, files |-> <<>>])
        /\ loader_result' = Some(loaders_load_telemetry_data(track, race, data_root))
        /\ UNCHANGED notLoadersVars

----------------------------------------------------------------------------
(* Claims about the package loaders.                                       *)

LoaderCalled == loader_call # None

(* C21: load_lap_data never raises and returns a table (empty when no file *)
(* is found or a file fails to load) for every requested track and race,   *)
(* with or without a custom data root; load_weather_data and               *)
(* load_telemetry_data return a table as well.                             *)
C21_LoadersNeverRaise ==
    LoaderCalled =>
        /\ Val(loader_result).raised = ""
        /\ Val(loader_result).table # None
        /\ Val(loader_call).loader = "load_lap_data"
               /\ "readable" \notin {Val(loader_call).files[i] : i \in 1..2}
               => Val(loader_result).table = Some(EmptyTable)

----------------------------------------------------------------------------
(* Concurrent first access to the process-wide caches (api_server.py):     *)
(* request threads (app.run(threaded=True)) call load_telemetry_data,      *)
(* load_lap_data or load_best_laps_data for one race id.  No lock guards   *)
(* the caches, so a thread switch can fall between any two statements.     *)

MaxThreads == 2
MaxCacheKeys == 2

Threads == 1..MaxThreads
(* The keys a complete entry holds (vehicle ids, lap types, car numbers),  *)
(* in the order the population loop stores them.                           *)
CacheKeys == 1..MaxCacheKeys
CacheKinds == {"load_telemetry_data", "load_lap_data", "load_best_laps_data"}
NoObject == 0

(* `if race_id not in cache`                                               *)
CacheMiss(cache, kind) == cache[kind] = NoObject

CacheInit ==
    /\ dict_objects = <<>>
    /\ race_cache = [kind \in CacheKinds |-> NoObject]
    /\ lru_store = [kind \in CacheKinds |-> NoObject]
    /\ thread_pc = [t \in Threads |-> "idle"]
    /\ thread_kind = [t \in Threads |-> "load_telemetry_data"]
    /\ thread_next = [t \in Threads |-> 1]
    /\ thread_observed = [t \in Threads |-> None]

(* What a caller holds when a call returns the dict object `id`.           *)
ReturnObject(t, id) ==
    /\ thread_observed' = [thread_observed EXCEPT ![t] = Some(dict_objects[id])]
    /\ thread_pc' = [thread_pc EXCEPT ![t] = "returned"]

(* The call enters: the lru_cache wrapper answers from its store, or the   *)
(* function body runs and tests `race_id not in cache`.                    *)
EnterLoader(t) ==
    \E kind \in CacheKinds :
        /\ thread_pc[t] = "idle"
        /\ thread_kind' = [thread_kind EXCEPT ![t] = kind]
        /\ IF lru_store[kind] # NoObject
           THEN ReturnObject(t, lru_store[kind]) /\ UNCHANGED lru_store
           ELSE IF CacheMiss(race_cache, kind)
           THEN /\ thread_pc' = [thread_pc EXCEPT ![t] = "reading"]
                /\ UNCHANGED <<thread_observed, lru_store>>
           ELSE /\ ReturnObject(t, race_cache[kind])
                /\ lru_store' = [lru_store EXCEPT ![kind] = race_cache[kind]]
        /\ UNCHANGED <<dict_objects, race_cache, thread_next, notCacheVars>>

(* After the file was read: `cache[race_id] = {}`.                         *)
CreateEntry(t) ==
    /\ thread_pc[t] = "reading"
    /\ dict_objects' = Append(dict_objects, {})
    /\ race_cache' = [race_cache EXCEPT ![thread_kind[t]] = Len(dict_objects) + 1]
    /\ thread_pc' = [thread_pc EXCEPT ![t] = "filling"]
    /\ thread_next' = [thread_next EXCEPT ![t] = 1]
    /\ UNCHANGED <<lru_store, thread_kind, thread_observed, notCacheVars>>

(* One pass of the loop: `cache[race_id][key] = value`, stored in whatever *)
(* dict the cache holds for the race at that moment.                       *)
StoreKey(t) ==
    /\ thread_pc[t] = "filling"
    /\ thread_next[t] \in CacheKeys
    /\ dict_objects' = [dict_objects EXCEPT ![race_cache[thread_kind[t]]] = @ \cup {thread_next[t]}]
    /\ thread_next' = [thread_next EXCEPT ![t] = @ + 1]
    /\ UNCHANGED <<race_cache, lru_store, thread_pc, thread_kind, thread_observed,
                   notCacheVars>>

(* `return cache[race_id]`; the lru_cache wrapper keeps the first result.  *)
ReturnEntry(t) ==
    /\ thread_pc[t] = "filling"
    /\ thread_next[t] \notin CacheKeys
    /\ ReturnObject(t, race_cache[thread_kind[t]])
    /\ lru_store' = [lru_store EXCEPT ![thread_kind[t]] =
                        IF @ = NoObject THEN race_cache[thread_kind[t]] ELSE @]
    /\ UNCHANGED <<dict_objects, race_cache, thread_kind, thread_next, notCacheVars>>

CacheStep == \E t \in Threads : EnterLoader(t) \/ CreateEntry(t) \/ StoreKey(t) \/ ReturnEntry(t)

----------------------------------------------------------------------------
(* Claims about concurrent cache population.                               *)

ThreadReturned(t) == thread_pc[t] = "returned"

(* C22: under any interleaving of concurrent calls of one loader for one   *)
(* race id, every call returns the fully populated table a sequential call *)
(* would return; no caller observes an empty or partly populated entry.    *)
C22_NoPartialEntryObserved ==
    \A t \in Threads : ThreadReturned(t) => thread_observed[t] = Some(CacheKeys)

----------------------------------------------------------------------------
(* Prompt building in /api/ai/analyze and aggregate_telemetry_context      *)
(* (api_server.py).                                                        *)

(* A vehicle id is the sequence of its hyphen-separated segments.          *)
AnalyzeVehicleIds ==
    {<<"GR86", "002", "000">>, <<"GR86", "006", "7">>, <<"GR86", "006">>,
     <<"GR86", "006", "x">>}

(* int(text) for the segments above: None is ValueError.                   *)
IntOf(text) ==
    IF text = "000" THEN Some(0)
    ELSE IF text = "002" THEN Some(2)
    ELSE IF text = "006" THEN Some(6)
    ELSE IF text = "7" THEN Some(7)
    ELSE None

(* Python truthiness of an optional integer: None and 0 are falsy.         *)
IsTruthy(value) == value # None /\ Val(value) # 0
Present(value) == value # None

(* car_number = int(parts[-1]) when the id has at least three segments.    *)
ExtractCarNumber(vehicle_id) ==
    IF Len(vehicle_id) >= 3 THEN IntOf(vehicle_id[Len(vehicle_id)]) ELSE None

(* The lap patterns in list order; a question gives, per pattern, the      *)
(* number its first match captures (None: the pattern does not match).     *)
LapPatterns == 1..5
NoMatch == [p \in LapPatterns |-> None]
QuestionTexts ==
    {[keywords |-> {}, matches |-> NoMatch],
     [keywords |-> {"position"}, matches |-> NoMatch],
     [keywords |-> {"position"}, matches |-> [NoMatch EXCEPT ![5] = Some(9)]],
     [keywords |-> {"position", "sector"},
      matches |-> [NoMatch EXCEPT ![2] = Some(3), ![4] = Some(3), ![5] = Some(9)]],
     [keywords |-> {"best lap"}, matches |-> [NoMatch EXCEPT ![5] = Some(0)]]}

PerformanceKeywords == {"best lap", "sector", "compare", "performance", "timing"}
PositionKeywords ==
    {"position", "race positions", "current position", "leading", "behind", "standings"}

(* for pattern in lap_patterns: match = re.search(...); if match: break    *)
RECURSIVE FirstPatternMatch(_, _)
FirstPatternMatch(matches, p) ==
    IF p \notin LapPatterns THEN None
    ELSE IF matches[p] # None THEN matches[p]
    ELSE FirstPatternMatch(matches, p + 1)

AnalyzeBodies ==
    [vehicle_id : AnalyzeVehicleIds,
     lap_number : {None, Some(0), Some(5)},
     telemetry_lap : {None, Some(0), Some(7)},
     question : QuestionTexts]

(* extracted_lap_number                                                    *)
ExtractLapNumber(body) ==
    LET from_request == body.lap_number
        from_telemetry ==
            IF ~IsTruthy(from_request) /\ IsTruthy(body.telemetry_lap)
            THEN body.telemetry_lap ELSE from_request
    IN  IF ~IsTruthy(from_telemetry)
        THEN LET match == FirstPatternMatch(body.question.matches, 1)
             IN  IF match # None THEN match ELSE from_telemetry
        ELSE from_telemetry

(* What is appended to the question.                                       *)
EnhanceQuestion(body) ==
    LET car_number == ExtractCarNumber(body.vehicle_id)
        extracted_lap_number == ExtractLapNumber(body)
    IN  [car_number_line |-> IF IsTruthy(car_number) THEN car_number ELSE None,
         lap_number_line |-> IF IsTruthy(extracted_lap_number)
                             THEN extracted_lap_number ELSE None,
         best_lap_guidance |->
             IF IsTruthy(car_number) /\ body.question.keywords \cap PerformanceKeywords # {}
             THEN car_number ELSE None,
         position_guidance |->
             IF body.question.keywords \cap PositionKeywords = {} THEN "none"
             ELSE IF IsTruthy(extracted_lap_number) THEN "lap_number"
             ELSE "no_lap_warning",
         position_lap |->
             IF body.question.keywords \cap PositionKeywords # {}
                /\ IsTruthy(extracted_lap_number)
             THEN extracted_lap_number ELSE None]

(* aggregate_telemetry_context: the cars of the official best-laps table   *)
(* and whether the vehicle has telemetry rows.                             *)
OfficialTables == SUBSET {0, 7}
ContextInputs ==
    [vehicle_id : AnalyzeVehicleIds, best_laps_data : OfficialTables,
     has_telemetry : BOOLEAN, has_rows : BOOLEAN]

aggregate_telemetry_context(input) ==
    LET car_number == ExtractCarNumber(input.vehicle_id)
    IN  IF ~input.has_telemetry
        THEN [best_lap |-> None, telemetry |-> "none"]
        ELSE [best_lap |-> IF IsTruthy(car_number) /\ Val(car_number) \in input.best_laps_data
                           THEN car_number ELSE None,
              telemetry |-> IF input.has_rows THEN "summary" ELSE "none"]

EnhanceInit ==
    /\ analyze_input = None
    /\ enhanced_question = None
    /\ context_input = None
    /\ telemetry_context = None

BuildEnhancedQuestion ==
    \E body \in AnalyzeBodies :
        /\ analyze_input' = Some(body)
        /\ enhanced_question' = Some(EnhanceQuestion(body))
        /\ UNCHANGED <<context_input, telemetry_context, notEnhanceVars>>

AggregateTelemetryContext ==
    \E input \in ContextInputs :
        /\ context_input' = Some(input)
        /\ telemetry_context' = Some(aggregate_telemetry_context(input))
        /\ UNCHANGED <<analyze_input, enhanced_question, notEnhanceVars>>

----------------------------------------------------------------------------
(* Claims about prompt building.                                           *)

Enhanced == analyze_input # None
(* The lap number by the stated priority over the sources that are present. *)
ResolvedByPriority(body) ==
    IF Present(body.lap_number) THEN body.lap_number
    ELSE IF Present(body.telemetry_lap) THEN body.telemetry_lap
    ELSE FirstPatternMatch(body.question.matches, 1)

(* C23: the lap number handed to the agent is the request's lap_number     *)
(* whenever present, else current_telemetry.lap, else the first lap        *)
(* pattern match in the question; a lower-priority source never overrides  *)
(* a present higher-priority one; with a position keyword the guidance     *)
(* names get_live_race_positions with exactly the resolved lap number, or  *)
(* the no-lap warning when none was resolved.                              *)
C23_LapNumberPriority ==
    Enhanced =>
        LET body == Val(analyze_input)
            resolved == ResolvedByPriority(body)
            out == Val(enhanced_question)
        IN  /\ ExtractLapNumber(body) = resolved
            /\ out.position_guidance # "none" =>
                   IF resolved # None
                   THEN out.position_guidance = "lap_number" /\ out.position_lap = resolved
                   ELSE out.position_guidance = "no_lap_warning"

HasCarNumber(vehicle_id, n) == Len(vehicle_id) >= 3 /\ IntOf(vehicle_id[Len(vehicle_id)]) = Some(n)

(* C30: car number 0 is handled like every other car number: for a vehicle *)
(* id with at least three segments whose last segment parses to an         *)
(* integer, /api/ai/analyze names the car number in the context block and  *)
(* appends the best-lap/sector guidance for performance keywords, and      *)
(* aggregate_telemetry_context attaches the best_lap block when the car is *)
(* in the official table.                                                  *)
C30_CarZeroLikeAnyCar ==
    /\ Enhanced =>
           \A n \in {0, 7} :
               HasCarNumber(Val(analyze_input).vehicle_id, n) =>
                   /\ Val(enhanced_question).car_number_line = Some(n)
                   /\ Val(analyze_input).question.keywords \cap PerformanceKeywords # {}
                          => Val(enhanced_question).best_lap_guidance = Some(n)
    /\ context_input # None =>
           \A n \in {0, 7} :
               /\ HasCarNumber(Val(context_input).vehicle_id, n)
               /\ Val(context_input).has_telemetry
               /\ n \in Val(context_input).best_laps_data
               => Val(telemetry_context).best_lap = Some(n)

----------------------------------------------------------------------------
(* RacingDataTools.get_track_position_analysis (racing_agent.py).          *)
(* Distances are in tenths of a metre, so that a lap distance may fall     *)
(* between two whole metres.                                               *)

length_meters == 3621
total_corners == 15
Tenths == 10

(* track_layout['corners'][c]['approx_distance'], in metres.               *)
approx_distance ==
    <<200, 400, 600, 900, 1200, 1500, 1700, 1900, 2100, 2300, 2600, 2900, 3100, 3300, 3500>>
(* track_layout['sectors'], in dict order.                                 *)
SectorIds == <<"S1", "S2", "S3">>
SectorCorners == <<1..4, 5..10, 11..15>>

(* Every whole metre of the lap, and points just before each corner.       *)
LapDistances ==
    {d * Tenths : d \in 0..length_meters}
        \cup {approx_distance[c] * Tenths - k : c \in 1..total_corners, k \in {3, 5, 7, 15}}
(* The lap distance of the latest telemetry point, when the tool has to    *)
(* look it up: None is no point or no lap distance.                        *)
TelemetryDistances == {None, Some(0), Some(2500 * Tenths)}
TrackCalls ==
    [lap_distance : {Some(d) : d \in LapDistances}, telemetry : {None}]
        \cup [lap_distance : {None}, telemetry : TelemetryDistances]

(* min(corner_distances) <= current_position <= max(corner_distances)     *)
InSector(s, position) ==
    LET corner_distances == {approx_distance[c] * Tenths : c \in SectorCorners[s]}
    IN  /\ \E lo \in corner_distances :
               (\A x \in corner_distances : lo <= x) /\ lo <= position
        /\ \E hi \in corner_distances :
               (\A x \in corner_distances : x <= hi) /\ position <= hi

(* for sector_id ...: if ...: current_sector = sector_id; break            *)
CurrentSector(position) ==
    IF \E s \in 1..3 : InSector(s, position)
    THEN Some(SectorIds[CHOOSE s \in 1..3 :
                   InSector(s, position) /\ \A r \in 1..3 : InSector(r, position) => s <= r])
    ELSE None

(* for corner_num in range(1, 16): if corner_distance > current_position   *)
NextCornerFrom(position) ==
    LET ahead == {c \in 1..total_corners : approx_distance[c] * Tenths >= position}
    IN  IF ahead = {} THEN 1 ELSE CHOOSE c \in ahead : \A x \in ahead : c <= x
NextCorner(position) ==
    LET ahead == {c \in 1..total_corners : approx_distance[c] * Tenths > position}
    IN  IF ahead = {} THEN 1 ELSE CHOOSE c \in ahead : \A x \in ahead : c <= x

(* distance_to_corner, with the wrap-around when it is negative.           *)
DistanceToCorner(corner, position) ==
    LET distance_to_corner == approx_distance[corner] * Tenths - position
    IN  IF distance_to_corner < 0
        THEN length_meters * Tenths - position + approx_distance[corner] * Tenths
        ELSE distance_to_corner

(* f"{x:.0f}" of a non-negative x given in tenths: round half to even.     *)
FormatWhole(x) ==
    LET q == x \div Tenths
        r == x % Tenths
    IN  IF r < 5 THEN q
        ELSE IF r > 5 THEN q + 1
        ELSE IF q % 2 = 0 THEN q ELSE q + 1

NoPosition == [position |-> None, current_sector |-> None, next_corner |-> None,
               distance_to_corner |-> None, distance_text |-> None]
PositionLines(position) ==
    [position |-> Some(position),
     current_sector |-> CurrentSector(position),
     next_corner |-> Some(NextCorner(position)),
     distance_to_corner |-> Some(DistanceToCorner(NextCorner(position), position)),
     distance_text |-> Some(FormatWhole(DistanceToCorner(NextCorner(position), position)))]

get_track_position_analysis(call) ==
    IF call.lap_distance # None THEN PositionLines(Val(call.lap_distance))
    ELSE IF call.telemetry = None THEN NoPosition
    ELSE IF Val(call.telemetry) = 0
    THEN [NoPosition EXCEPT !.position = Some(0)]   \* `if current_position:` is false
    ELSE PositionLines(Val(call.telemetry))

TrackInit ==
    /\ track_call \in TrackCalls
    /\ track_report = None

GetTrackPositionAnalysis ==
    /\ track_report = None
    /\ track_report' = Some(get_track_position_analysis(track_call))
    /\ UNCHANGED <<track_call, notTrackVars>>

----------------------------------------------------------------------------
(* Claims about the track position tool.                                   *)

DistanceSupplied == track_report # None /\ track_call.lap_distance # None
SuppliedDistance == Val(track_call.lap_distance)
(* The lowest-numbered corner beyond d, corner 1 at or beyond corner 15.   *)
ExpectedNextCorner(d) ==
    IF d >= approx_distance[total_corners] * Tenths THEN 1
    ELSE CHOOSE c \in 1..total_corners :
             /\ approx_distance[c] * Tenths > d
             /\ \A x \in 1..(c - 1) : approx_distance[x] * Tenths <= d
NextCornerAsStated ==
    /\ Val(track_report).next_corner = Some(ExpectedNextCorner(SuppliedDistance))
    /\ Val(Val(track_report).distance_to_corner) > 0
    /\ Val(Val(track_report).distance_to_corner) =
           (approx_distance[ExpectedNextCorner(SuppliedDistance)] * Tenths - SuppliedDistance)
               % (length_meters * Tenths)

(* C24 as stated: for every supplied lap distance d in [0, 3621] the tool  *)
(* reports as next corner the lowest-numbered corner beyond d, corner 1 at *)
(* or beyond corner 15, and reports a strictly positive distance to it,    *)
(* computed modulo the track length.                                       *)
C24_ReportedDistancePositive ==
    DistanceSupplied =>
        /\ NextCornerAsStated
        /\ Val(Val(track_report).distance_text) > 0

(* C24 as the code has it: the next corner and the distance are as stated  *)
(* and the distance is strictly positive, but the report prints it rounded *)
(* to whole metres, which is 0 exactly when the corner is at most half a   *)
(* metre ahead.                                                            *)
C24_NextCornerAndRoundedDistance ==
    DistanceSupplied =>
        /\ NextCornerAsStated
        /\ Val(Val(track_report).distance_text)
               = FormatWhole(Val(Val(track_report).distance_to_corner))
        /\ Val(Val(track_report).distance_text) = 0
               <=> Val(Val(track_report).distance_to_corner) <= 5

(* A distance past corner 15: the next corner wraps to corner 1.           *)
C24_Witness ==
    /\ DistanceSupplied
    /\ SuppliedDistance = 3600 * Tenths
    /\ Val(track_report).next_corner = Some(1)
    /\ Val(track_report).distance_text = Some(221)

(* C25: every lap distance d in [0, 3621] is assigned to exactly one of    *)
(* the sectors S1, S2, S3.                                                 *)
C25_EveryDistanceHasSector ==
    DistanceSupplied => Val(track_report).current_sector \in {Some("S1"), Some("S2"), Some("S3")}

----------------------------------------------------------------------------
(* load_best_laps_data and best_laps_cache (api_server.py), one race id,   *)
(* calls one after another.                                                *)

MaxOfficialRows == 3
MaxLoads == 2

(* The NUMBER cell of a row: an integer, or a text int() raises on (None). *)
NumberCells == {Some(7), Some(13), None}
OfficialFiles == {None} \cup {Some(rows) : rows \in SeqUpTo(NumberCells, MaxOfficialRows)}

(* The table of a list of rows: car number -> the index of its last row.   *)
TableOf(rows, n) ==
    [car \in {Val(rows[i]) : i \in 1..n} |->
        CHOOSE i \in 1..n : rows[i] = Some(car) /\ \A j \in 1..n : rows[j] = Some(car) => j <= i]
EmptyBestLaps == <<>>

(* The first row whose NUMBER does not parse, 0 if every row parses.       *)
FirstBadRow(rows) ==
    IF \A i \in 1..Len(rows) : rows[i] # None THEN 0
    ELSE CHOOSE i \in 1..Len(rows) : rows[i] = None /\ \A j \in 1..(i - 1) : rows[j] # None

(* The body of load_best_laps_data on a cache miss: the entry it leaves in *)
(* the cache and whether it raised.  The entry is created empty before the *)
(* loop and filled row by row.                                             *)
PopulateBestLaps(file) ==
    IF file = None THEN [entry |-> Some(EmptyBestLaps), raised |-> FALSE]
    ELSE IF FirstBadRow(Val(file)) = 0
    THEN [entry |-> Some(TableOf(Val(file), Len(Val(file)))), raised |-> FALSE]
    ELSE [entry |-> Some(TableOf(Val(file), FirstBadRow(Val(file)) - 1)), raised |-> TRUE]

BestLapsReturned(table) == [raised |-> FALSE, table |-> Some(table)]
BestLapsRaised == [raised |-> TRUE, table |-> None]

BestLapsInit ==
    /\ official_file \in OfficialFiles
    /\ best_laps_cache = None
    /\ best_laps_lru = None
    /\ best_laps_loads = 0
    /\ best_laps_outcome = None

(* One call of load_best_laps_data(race_id) through the lru_cache wrapper. *)
LoadBestLapsData ==
    /\ best_laps_loads < MaxLoads
    /\ best_laps_loads' = best_laps_loads + 1
    /\ IF best_laps_lru # None
       THEN /\ best_laps_outcome' = Some(BestLapsReturned(Val(best_laps_lru)))
            /\ UNCHANGED <<best_laps_cache, best_laps_lru>>
       ELSE IF best_laps_cache # None
       THEN /\ best_laps_outcome' = Some(BestLapsReturned(Val(best_laps_cache)))
            /\ best_laps_lru' = best_laps_cache
            /\ UNCHANGED best_laps_cache
       ELSE LET run == PopulateBestLaps(official_file)
            IN  /\ best_laps_cache' = run.entry
                /\ best_laps_lru' = IF run.raised THEN None ELSE run.entry
                /\ best_laps_outcome' = IF run.raised THEN Some(BestLapsRaised)
                                        ELSE Some(BestLapsReturned(Val(run.entry)))
    /\ UNCHANGED <<official_file, notBestLapsVars>>

----------------------------------------------------------------------------
(* Claims about the best-laps cache.                                       *)

BestLapsCalled == best_laps_outcome # None
CompleteTable ==
    IF official_file = None THEN EmptyBestLaps
    ELSE TableOf(Val(official_file), Len(Val(official_file)))
FileParses == official_file = None \/ FirstBadRow(Val(official_file)) = 0

(* C27: a failed population does not poison the cache: if                  *)
(* load_best_laps_data raises part-way through the official table, the     *)
(* cache entry of the race is left unpopulated, so every later call either *)
(* raises again or returns the complete table, never a truncated one.      *)
C27_FailedLoadLeavesNoEntry ==
    /\ ~FileParses /\ BestLapsCalled => best_laps_cache = None
    /\ BestLapsCalled =>
           \/ Val(best_laps_outcome).raised
           \/ FileParses /\ Val(best_laps_outcome).table = Some(CompleteTable)

----------------------------------------------------------------------------
(* GET /api/telemetry/{race}/{vehicle}/chunk, row by row: the lap of a     *)
(* point, the synthetic marker rows and the form of their timestamps.      *)

MaxChunkRows == 3

ChunkTimes == {1000, 1100}
ChunkNames == {Lat, Lon, "speed"}
ChunkLaps == {0, 2}

(* A row of the telemetry file, as vehicle_data.to_dict('records') and the *)
(* cached DataFrame hold it.                                               *)
ChunkRow(name, ms, lap) ==
    [meta_source |-> OriginalSource, telemetry_name |-> name,
     telemetry_value |-> "measured", lap |-> lap,
     timestamp |-> ParsedTimestamp(ms), row |-> 0]
ChunkRows == {ChunkRow(name, ms, lap) : name \in ChunkNames, ms \in ChunkTimes, lap \in ChunkLaps}

(* vehicle_data.sort_values('timestamp'): the rows of a vehicle are in     *)
(* timestamp order; groupby('vehicle_id') yields no empty vehicle.         *)
ChunkRowSeqs ==
    {s \in UNION {[1..n -> ChunkRows] : n \in 1..MaxChunkRows} :
        \A i \in 1..(Len(s) - 1) : s[i].timestamp.ms <= s[i + 1].timestamp.ms}

(* An aligned crossing of lap 1 whose official completion time is the      *)
(* instant of a telemetry sample, and one of lap 20 between two samples.   *)
ChunkCrossing(lap_number, official_completion_time) ==
    [lap_number |-> lap_number, detection_method |-> "gps_crossing",
     telemetry_timestamp |-> official_completion_time,
     official_completion_time |-> official_completion_time]
ChunkCrossingSeqs ==
    {<<>>, <<ChunkCrossing(1, 1000)>>, <<ChunkCrossing(MaxRaceLaps, 1050)>>}

ChunkRanges ==
    {[start_time |-> s, end_time |-> e] : s \in {None, Some(1100)}, e \in {None, Some(1000)}}

(* augment_vehicle_data(...)['augmented_data']: no record for a vehicle    *)
(* without rows, else the rows and the synthetic records in timestamp      *)
(* order; None when the call raises.                                       *)
AugmentedRecords(rows, crossings) ==
    IF crossings = None THEN None
    ELSE IF rows = None THEN Some(<<>>)
    ELSE Some(SortByTimestamp(Val(rows) \o create_lap_marker_records(Val(crossings))))

(* pd.to_datetime(value, utc=True) of one cell: a Timestamp is kept; the   *)
(* text isoformat() + 'Z' of an aware Timestamp ends in "+00:00Z", which   *)
(* is no ISO 8601 text, and the call raises.  None stands for the raise.   *)
to_datetime(timestamp) ==
    IF timestamp.form = "Timestamp" THEN Some(timestamp) ELSE None

(* load_augmented_telemetry_data(race_id, vehicle_id): None when the       *)
(* augmenter raised, when it gave no record, and when the timestamp column *)
(* does not convert; else the records as a frame in timestamp order.       *)
AugmentedFrame(records) ==
    IF records = None THEN None
    ELSE IF Val(records) = <<>> THEN None
    ELSE IF \E i \in 1..Len(Val(records)) : to_datetime(Val(records)[i].timestamp) = None
    THEN None
    ELSE Some(SortByTimestamp(
             [i \in 1..Len(Val(records)) |->
                 [Val(records)[i] EXCEPT !.timestamp = Val(to_datetime(@))]]))

(* use_augmented after the fallback: the request asked for augmented data  *)
(* and the frame was there.                                                *)
AsRequested(augmented, frame) == augmented
UseAugmented(augmented, frame) == augmented /\ frame # None

(* telemetry_dict.get(name) after the loop over the rows of one timestamp: *)
(* the value of the last row of that name.                                 *)
LastValue(group, name) ==
    LET named == SelectSeq(group, LAMBDA r : r.telemetry_name = name)
    IN  IF named = <<>> THEN None ELSE Some(named[Len(named)].telemetry_value)

(* int(lap) if lap else 1, lap being the lap of the first row.             *)
PointLap(group) == IF group[1].lap # 0 THEN group[1].lap ELSE 1

(* The dict appended to chunk_data: the timestamp and thirteen values.     *)
ChunkPoint(ms, group) ==
    [timestamp |-> ms,
     lap |-> PointLap(group),
     latitude |-> LastValue(group, Lat),
     longitude |-> LastValue(group, Lon),
     speed |-> LastValue(group, "speed"),
     gear |-> LastValue(group, "gear"),
     throttle |-> LastValue(group, "aps"),
     brake_rear |-> LastValue(group, "pbrake_r"),
     brake_front |-> LastValue(group, "pbrake_f"),
     engine_rpm |-> LastValue(group, "nmot"),
     steering_angle |-> LastValue(group, "Steering_Angle"),
     g_force_x |-> LastValue(group, "accx_can"),
     g_force_y |-> LastValue(group, "accy_can"),
     lap_distance |-> LastValue(group, "Laptrigger_lapdist_dls")]

(* The loop over vehicle_data.groupby('timestamp') of the rows in range.   *)
ChunkData(frame, start_time, end_time) ==
    LET in_range == SelectSeq(frame, LAMBDA r : InRange(r.timestamp.ms, start_time, end_time))
        times == Ascending({in_range[i].timestamp.ms : i \in 1..Len(in_range)})
        GroupOf(ms) == SelectSeq(in_range, LAMBDA r : r.timestamp.ms = ms)
        kept == SelectSeq(times,
                    LAMBDA ms : LastValue(GroupOf(ms), Lat) # None
                                /\ LastValue(GroupOf(ms), Lon) # None)
    IN  [i \in 1..Len(kept) |-> ChunkPoint(kept[i], GroupOf(kept[i]))]

(* The whole handler, for the request with the given augmented parameter.  *)
ChunkResponse(rows, crossings, range, augmented) ==
    LET frame == IF augmented THEN AugmentedFrame(AugmentedRecords(rows, crossings))
                 ELSE None
        use_augmented == UseAugmented(augmented, frame)
    IN  IF frame = None /\ rows = None
        THEN [status |-> 404, body |-> ErrorBody("Vehicle not found")]
        ELSE LET chosen_rows == IF frame # None THEN Val(frame) ELSE Val(rows)
                 chunk_data == ChunkData(chosen_rows, range.start_time, range.end_time)
             IN  [status |-> 200,
                  body |-> [data |-> chunk_data,
                            total_points |-> Len(chunk_data),
                            augmented |-> use_augmented]]

ChunkInit ==
    /\ chunk_rows \in {None} \cup {Some(s) : s \in ChunkRowSeqs}
    /\ chunk_crossings \in {None} \cup {Some(c) : c \in ChunkCrossingSeqs}
    /\ chunk_range \in ChunkRanges
    /\ chunk_response = [augmented \in BOOLEAN |-> None]

(* GET /api/telemetry/{race}/{vehicle}/chunk?augmented=...                 *)
GetChunk ==
    \E augmented \in BOOLEAN :
        /\ chunk_response[augmented] = None
        /\ chunk_response' =
               [chunk_response EXCEPT
                   ![augmented] = Some(ChunkResponse(chunk_rows, chunk_crossings,
                                                     chunk_range, augmented))]
        /\ UNCHANGED <<chunk_rows, chunk_crossings, chunk_range, notChunkVars>>

----------------------------------------------------------------------------
(* Claims about the augmented chunk.                                       *)

BothChunksAnswered == chunk_response[TRUE] # None /\ chunk_response[FALSE] # None
AugmentedChunk == Val(chunk_response[TRUE])
PlainChunk == Val(chunk_response[FALSE])
MergedFrame == AugmentedFrame(AugmentedRecords(chunk_rows, chunk_crossings))

----------------------------------------------------------------------------
(* The specifications: one per endpoint family.  The other families'       *)
(* variables rest at their idle values.                                    *)

LapsIdle ==
    /\ best_laps_data = None
    /\ lap_data = {}
    /\ vehicle_starts = <<>>
    /\ vehicle_ends = <<>>
    /\ fallback_body = None
    /\ lap_response = None

PosIdle ==
    /\ field = [c \in CarNumbers |-> Absent]
    /\ expected_lap_arg = None
    /\ target_offset = 60
    /\ current_race_lap = None
    /\ pos_response = None

TelIdle ==
    /\ vehicle_data = None
    /\ marker_times = None
    /\ tel_request = None
    /\ tel_response = None

AiIdle == AiInit

LoadIdle ==
    /\ telemetry_files = {}
    /\ telemetry_cache = {}
    /\ load_request = None
    /\ load_response = None

CodecIdle ==
    /\ codec_ms = 0
    /\ codec_text = None
    /\ codec_parsed = None

AugIdle ==
    /\ aug_stream = <<>>
    /\ aug_official = {}
    /\ aug_result = None
    /\ aug_response = None

StintIdle ==
    /\ stint_rows = <<>>
    /\ stint_track = None
    /\ stint_info = None
    /\ degradation_rates = None

StrategyIdle == StrategyInit

PersistIdle == PersistInit

LoadersIdle == LoadersInit

CacheIdle == CacheInit

EnhanceIdle == EnhanceInit

TrackIdle ==
    /\ track_call = [lap_distance |-> None, telemetry |-> None]
    /\ track_report = None

BestLapsIdle ==
    /\ official_file = None
    /\ best_laps_cache = None
    /\ best_laps_lru = None
    /\ best_laps_loads = 0
    /\ best_laps_outcome = None

ChunkIdle ==
    /\ chunk_rows = None
    /\ chunk_crossings = None
    /\ chunk_range = [start_time |-> None, end_time |-> None]
    /\ chunk_response = [augmented \in BOOLEAN |-> None]

NextLaps == GetLapData
InitLaps == LapsInit /\ PosIdle /\ TelIdle /\ AiIdle /\ LoadIdle /\ CodecIdle
    /\ AugIdle /\ StintIdle /\ StrategyIdle /\ PersistIdle /\ LoadersIdle
    /\ CacheIdle /\ EnhanceIdle /\ TrackIdle /\ BestLapsIdle /\ ChunkIdle
SpecLaps == InitLaps /\ [][NextLaps]_vars

NextPos == GetRacePositions
InitPos == PosInit /\ LapsIdle /\ TelIdle /\ AiIdle /\ LoadIdle /\ CodecIdle
    /\ AugIdle /\ StintIdle /\ StrategyIdle /\ PersistIdle /\ LoadersIdle
    /\ CacheIdle /\ EnhanceIdle /\ TrackIdle /\ BestLapsIdle /\ ChunkIdle
SpecPos == InitPos /\ [][NextPos]_vars

NextTel == GetTelemetryChunk \/ GetPositionAtTime
InitTel == TelInit /\ LapsIdle /\ PosIdle /\ AiIdle /\ LoadIdle /\ CodecIdle
    /\ AugIdle /\ StintIdle /\ StrategyIdle /\ PersistIdle /\ LoadersIdle
    /\ CacheIdle /\ EnhanceIdle /\ TrackIdle /\ BestLapsIdle /\ ChunkIdle
SpecTel == InitTel /\ [][NextTel]_vars

NextAi == AnalyzeRejected \/ AnalyzeRacingQuestion \/ TestAiConnection
    \/ ResetRacingAgent
InitAi == AiInit /\ LapsIdle /\ PosIdle /\ TelIdle /\ LoadIdle /\ CodecIdle
    /\ AugIdle /\ StintIdle /\ StrategyIdle /\ PersistIdle /\ LoadersIdle
    /\ CacheIdle /\ EnhanceIdle /\ TrackIdle /\ BestLapsIdle /\ ChunkIdle
SpecAi == InitAi /\ [][NextAi]_vars

NextLoad == GetTelemetry \/ FileChanges
InitLoad == LoadInit /\ LapsIdle /\ PosIdle /\ TelIdle /\ AiIdle /\ CodecIdle
    /\ AugIdle /\ StintIdle /\ StrategyIdle /\ PersistIdle /\ LoadersIdle
    /\ CacheIdle /\ EnhanceIdle /\ TrackIdle /\ BestLapsIdle /\ ChunkIdle
SpecLoad == InitLoad /\ [][NextLoad]_vars

NextCodec == FormatLapTime \/ ParseLapTime
InitCodec == CodecInit /\ LapsIdle /\ PosIdle /\ TelIdle /\ AiIdle /\ LoadIdle
    /\ AugIdle /\ StintIdle /\ StrategyIdle /\ PersistIdle /\ LoadersIdle
    /\ CacheIdle /\ EnhanceIdle /\ TrackIdle /\ BestLapsIdle /\ ChunkIdle
SpecCodec == InitCodec /\ [][NextCodec]_vars

NextAug == AugmentVehicleData \/ GetAugmentedTelemetryInfo
InitAug == AugInit /\ LapsIdle /\ PosIdle /\ TelIdle /\ AiIdle /\ LoadIdle
    /\ CodecIdle /\ StintIdle /\ StrategyIdle /\ PersistIdle /\ LoadersIdle
    /\ CacheIdle /\ EnhanceIdle /\ TrackIdle /\ BestLapsIdle /\ ChunkIdle
SpecAug == InitAug /\ [][NextAug]_vars

NextStint == DetectStints \/ CalculateDegradationRate
InitStint == StintInit /\ LapsIdle /\ PosIdle /\ TelIdle /\ AiIdle /\ LoadIdle
    /\ CodecIdle /\ AugIdle /\ StrategyIdle /\ PersistIdle /\ LoadersIdle
    /\ CacheIdle /\ EnhanceIdle /\ TrackIdle /\ BestLapsIdle /\ ChunkIdle
SpecStint == InitStint /\ [][NextStint]_vars

NextStrategy == MakeStrategyDecision \/ GetDecisionSummary
InitStrategy == StrategyInit /\ LapsIdle /\ PosIdle /\ TelIdle /\ AiIdle
    /\ LoadIdle /\ CodecIdle /\ AugIdle /\ StintIdle /\ PersistIdle
    /\ LoadersIdle /\ CacheIdle /\ EnhanceIdle /\ TrackIdle /\ BestLapsIdle
    /\ ChunkIdle
SpecStrategy == InitStrategy /\ [][NextStrategy]_vars

NextPersist == SaveModel \/ SaveModelBundle \/ LoadModel \/ LoadModelBundle
    \/ ListSavedModels
InitPersist == PersistInit /\ LapsIdle /\ PosIdle /\ TelIdle /\ AiIdle
    /\ LoadIdle /\ CodecIdle /\ AugIdle /\ StintIdle /\ StrategyIdle
    /\ LoadersIdle /\ CacheIdle /\ EnhanceIdle /\ TrackIdle /\ BestLapsIdle
    /\ ChunkIdle
SpecPersist == InitPersist /\ [][NextPersist]_vars

NextLoaders == LoadLapData \/ LoadWeatherData \/ LoadTelemetryData
InitLoaders == LoadersInit /\ LapsIdle /\ PosIdle /\ TelIdle /\ AiIdle
    /\ LoadIdle /\ CodecIdle /\ AugIdle /\ StintIdle /\ StrategyIdle
    /\ PersistIdle /\ CacheIdle /\ EnhanceIdle /\ TrackIdle /\ BestLapsIdle
    /\ ChunkIdle
SpecLoaders == InitLoaders /\ [][NextLoaders]_vars

NextCache == CacheStep
InitCache == CacheInit /\ LapsIdle /\ PosIdle /\ TelIdle /\ AiIdle /\ LoadIdle
    /\ CodecIdle /\ AugIdle /\ StintIdle /\ StrategyIdle /\ PersistIdle
    /\ LoadersIdle /\ EnhanceIdle /\ TrackIdle /\ BestLapsIdle /\ ChunkIdle
SpecCache == InitCache /\ [][NextCache]_vars

NextEnhance == BuildEnhancedQuestion \/ AggregateTelemetryContext
InitEnhance == EnhanceInit /\ LapsIdle /\ PosIdle /\ TelIdle /\ AiIdle
    /\ LoadIdle /\ CodecIdle /\ AugIdle /\ StintIdle /\ StrategyIdle
    /\ PersistIdle /\ LoadersIdle /\ CacheIdle /\ TrackIdle /\ BestLapsIdle
    /\ ChunkIdle
SpecEnhance == InitEnhance /\ [][NextEnhance]_vars

NextTrack == GetTrackPositionAnalysis
InitTrack == TrackInit /\ LapsIdle /\ PosIdle /\ TelIdle /\ AiIdle /\ LoadIdle
    /\ CodecIdle /\ AugIdle /\ StintIdle /\ StrategyIdle /\ PersistIdle
    /\ LoadersIdle /\ CacheIdle /\ EnhanceIdle /\ BestLapsIdle /\ ChunkIdle
SpecTrack == InitTrack /\ [][NextTrack]_vars

NextBestLaps == LoadBestLapsData
InitBestLaps == BestLapsInit /\ LapsIdle /\ PosIdle /\ TelIdle /\ AiIdle
    /\ LoadIdle /\ CodecIdle /\ AugIdle /\ StintIdle /\ StrategyIdle
    /\ PersistIdle /\ LoadersIdle /\ CacheIdle /\ EnhanceIdle /\ TrackIdle
    /\ ChunkIdle
SpecBestLaps == InitBestLaps /\ [][NextBestLaps]_vars

NextChunk == GetChunk
InitChunk == ChunkInit /\ LapsIdle /\ PosIdle /\ TelIdle /\ AiIdle /\ LoadIdle
    /\ CodecIdle /\ AugIdle /\ StintIdle /\ StrategyIdle /\ PersistIdle
    /\ LoadersIdle /\ CacheIdle /\ EnhanceIdle /\ TrackIdle /\ BestLapsIdle
SpecChunk == InitChunk /\ [][NextChunk]_vars

====
